---- MODULE Spec2Model ----
(***************************************************************************)
(* A model of the finite state machine engine of quintans/fsm (fsm.go):    *)
(* State, StateMachine, StateMachineInstance, Context, the fire /          *)
(* transition algorithm, the fallback setters and the transition           *)
(* listeners.  Go pointers are modelled as identifiers into heaps          *)
(* (stateObjs for *State, arrs for the backing arrays of slices), closures *)
(* as descriptors of what they do when called.                             *)
(***************************************************************************)
EXTENDS Integers, Sequences, FiniteSets, TLC

VARIABLES
    stateObjs,  \* heap of State structs: identity -> fields
    sm,         \* StateMachine structs: 0 is the definition, i >= 1 the copy held by instance i
    arrs,       \* heap of backing arrays of the onTransitionListeners slices
    inst,       \* StateMachineInstance i: whether it exists, and its currentState
    fr,         \* the Fire call in progress: position in the code and its locals
    call,       \* the arguments of the last external Fire call and the state it started in
    ret,        \* what the last external Fire call returned
    log,        \* every handler and listener invocation of the last external Fire call
    eps,        \* the episodes resolved by the last external Fire call
    calls,      \* per state, how often onEnter / onExit / onEvent ran
    epis,       \* per state, how many episodes entered / left / targeted it
    fires,      \* number of external Fire calls made
    lisVia,     \* lisVia[l]: the StateMachine struct listener l was added through
    lastSet,    \* per scope, the fallback setter called last and its argument
    states,     \* the states map of the definition (shared by its copies): name -> State
    made,       \* what the last FromState / FromStateName call returned
    parked,     \* the goroutine that is not running: its Fire call and what it recorded
    gor,        \* the goroutine that is running; goroutine g fires at instance g
    alone,      \* alone[i]: where instance i stands had its Fire calls been the only ones
    dot         \* what the last Dot call was given and what it returned

vars == <<stateObjs, sm, arrs, inst, fr, call, ret, log, eps, calls, epis, fires, lisVia,
          lastSet, states, made, parked, gor, alone, dot>>

----------------------------------------------------------------------------
(* Bounds of the model. *)

MaxFires == 2
MaxListeners == 2
\* the most listeners the definition has before the first instance is made of it
MaxBefore == 3

----------------------------------------------------------------------------
(* Values. *)

Nil == "nil"

\* identities of the State structs: the five built by createFSM, and one that a later
\* AddState allocates
StateIds == {"green", "yellow", "bounce", "red", "exit", "added"}

\* event keys of the test fixture, and one that no transition is keyed by
TICK == "TICK"
CONTINUE == "CONTINUE"
LOOP == "LOOP"
UNKNOWN == "UNKNOWN"
Keys == {TICK, CONTINUE, LOOP, UNKNOWN}

\* payloads handed to WithData by the callers of Fire
DataValues == {"d1"}
\* the payload a handler overrides the payload of its follow-up event with
OverrideData == "d2"

\* the StateMachineInstances: two siblings derived from the definition
Instances == {1, 2}
\* the StateMachine structs: 0 is the definition, i the copy held by instance i
Machines == {0} \cup Instances

----------------------------------------------------------------------------
(* Handlers.  An OnHandler is a closure over the tracker of the tests; its *)
(* descriptor lists the Context.Fire calls it makes, the key it fires at   *)
(* the instance it has captured (refire) and whether its own work fails.   *)
(* A fallback handler is described by the state it returns.                *)

NoHandler == [set |-> FALSE, fires |-> <<>>, refire |-> Nil, fails |-> FALSE]
Track == [NoHandler EXCEPT !.set = TRUE]
TrackFire(k) == [Track EXCEPT !.fires = <<[key |-> k, opts |-> <<>>]>>]
\* a handler that overrides the payload of the event it requests
TrackFireWith(k, d) == [Track EXCEPT !.fires = <<[key |-> k, opts |-> <<d>>]>>]
\* a handler that calls Context.Fire twice: Fire(k1, WithData(d)), then Fire(k2)
TrackFireTwice(k1, d, k2) ==
    [Track EXCEPT !.fires = <<[key |-> k1, opts |-> <<d>>], [key |-> k2, opts |-> <<>>]>>]
\* a handler that has captured the instance and calls its Fire(k)
TrackRefire(k) == [Track EXCEPT !.refire = k]
\* a handler whose work fails; an OnHandler has no result to report it with
TrackFailing == [Track EXCEPT !.fails = TRUE]

NoFallbackHandler == [set |-> FALSE, ret |-> Nil]
FallbackReturning(s) == [set |-> TRUE, ret |-> s]

\* what listener l does when notified: the listener of ExampleListener only prints;
\* every second listener registered also calls c.Fire(LOOP) on the context it is given
ListenerBody(l) == IF l % 2 = 0 THEN TrackFire(LOOP) ELSE Track

----------------------------------------------------------------------------
(* Context *)

NoFire == [set |-> FALSE, key |-> Nil, options |-> <<>>]

NilCtx == [isNil |-> TRUE, context |-> Nil, eventKey |-> Nil, data |-> Nil,
           to |-> Nil, from |-> Nil, fire |-> NoFire]

NewContext(key) == [NilCtx EXCEPT !.isNil = FALSE, !.eventKey = key]

\* WithData(d) applied to ctx
WithData(ctx, d) == [ctx EXCEPT !.data = d]

\* for _, option := range options { option(ctx) }
RECURSIVE ApplyOptions(_, _)
ApplyOptions(ctx, options) ==
    IF options = <<>> THEN ctx
    ELSE ApplyOptions(WithData(ctx, Head(options)), Tail(options))

\* ContextFire that does not copy the options of the context into the new event
ContextFireBare(c, key, overrideOptions) ==
    [c EXCEPT !.fire = [set |-> TRUE, key |-> key, options |-> overrideOptions]]

ContextFire(c, key, overrideOptions) ==
    LET o1 == IF c.data # Nil THEN <<c.data>> ELSE <<>>
        o2 == IF c.context # Nil THEN o1 \o <<c.context>> ELSE o1
        options == o2 \o overrideOptions
    IN [c EXCEPT !.fire = [set |-> TRUE, key |-> key, options |-> options]]

\* nextContext dropping the requested event
nextContextNever(c) == NilCtx

nextContext(c) ==
    IF ~c.fire.set THEN NilCtx
    ELSE ApplyOptions(NewContext(c.fire.key), c.fire.options)

\* SetFrom that returns the copy without setting from
SetFromUnset(c, state) == c

SetFrom(c, state) == [c EXCEPT !.from = state]
SetTo(c, state) == [c EXCEPT !.to = state]

\* RunFires in which the first Context.Fire call of a handler sticks
RunFiresFirst(c, fs) ==
    IF fs = <<>> THEN c ELSE ContextFire(c, fs[1].key, fs[1].opts)

\* calling handler h with the context c: the Context.Fire calls it makes, in order
RECURSIVE RunFires(_, _)
RunFires(c, fs) ==
    IF fs = <<>> THEN c
    ELSE RunFires(ContextFire(c, Head(fs).key, Head(fs).opts), Tail(fs))

RunHandler(c, h) == RunFires(c, h.fires)

----------------------------------------------------------------------------
(* Slices: a header (array, len, cap) over a backing array of the heap.    *)

EmptySlice == [arr |-> 0, len |-> 0, cap |-> 0]

SliceAt(hdr, k) == arrs[hdr.arr][k]

\* the elements a range over the slice visits
SliceElems(hdr) == [k \in 1..hdr.len |-> arrs[hdr.arr][k]]

----------------------------------------------------------------------------
(* The machine built by createFSM: GREEN --TICK--> YELLOW --TICK--> BOUNCE *)
(* --CONTINUE--> RED, RED --TICK--> GREEN, RED --LOOP--> RED, YELLOW falls *)
(* back to EXIT, and the onEvent of BOUNCE fires CONTINUE.  Every state    *)
(* has the three handlers, each recording its call in the tracker.         *)

NoTransitions == [k \in Keys |-> Nil]

NewState(name) ==
    [name |-> name, transitions |-> NoTransitions,
     fallbackTransition |-> Nil, fallbackHandler |-> NoFallbackHandler,
     onEnter |-> Track, onEvent |-> Track, onExit |-> Track]

\* a State struct that no AddState has allocated yet
Unallocated ==
    [NewState(Nil) EXCEPT !.onEnter = NoHandler, !.onEvent = NoHandler,
                          !.onExit = NoHandler]

FixtureStates ==
    [s \in StateIds |->
        CASE s = "green" ->
               [NewState("GREEN") EXCEPT !.transitions[TICK] = "yellow"]
          [] s = "yellow" ->
               [NewState("YELLOW") EXCEPT !.transitions[TICK] = "bounce",
                                          !.fallbackTransition = "exit"]
          [] s = "bounce" ->
               [NewState("BOUNCE") EXCEPT !.transitions[CONTINUE] = "red",
                                          !.onEvent = TrackFire(CONTINUE)]
          [] s = "red" ->
               [NewState("RED") EXCEPT !.transitions[TICK] = "green",
                                       !.transitions[LOOP] = "red"]
          [] s = "exit" -> NewState("EXIT")
          [] OTHER -> Unallocated]

\* NewStateMachine: no states, no listeners, no fallback
NewStateMachine ==
    [orderedStates |-> EmptySlice,
     onTransitionListeners |-> EmptySlice,
     fallbackHandler |-> NoFallbackHandler,
     fallbackState |-> Nil]

\* s.orderedStates after the five AddState calls of createFSM: append has grown the
\* backing array to a capacity of 8
FixtureOrdered ==
    [k \in 1..8 |->
        IF k <= 5 THEN <<"green", "yellow", "bounce", "red", "exit">>[k] ELSE Nil]

FixtureMachine ==
    [NewStateMachine EXCEPT !.orderedStates = [arr |-> 1, len |-> 5, cap |-> 8]]

NoInstance == [live |-> FALSE, currentState |-> Nil]

\* the names createFSM registers with AddState, and one it does not
Names == {"GREEN", "YELLOW", "BOUNCE", "RED", "EXIT", "PURPLE"}

\* s.states after createFSM
FixtureNames ==
    [n \in Names |->
        IF \E s \in StateIds : FixtureStates[s].name = n
        THEN CHOOSE s \in StateIds : FixtureStates[s].name = n
        ELSE Nil]

\* no FromState / FromStateName call has been made
NoMade == [inst |-> 0, err |-> "none", state |-> Nil, name |-> Nil]

ErrStateNotFound(name) ==
    [inst |-> 0, err |-> "ErrStateNotFound", state |-> name, name |-> name]

\* the fallback setters createFSM has called: yellow.SetFallbackTransition(exit)
NoSet == [kind |-> "none", arg |-> Nil]
FixtureLastSet ==
    [state |-> [s \in StateIds |->
                   IF s = "yellow" THEN [kind |-> "static", arg |-> "exit"] ELSE NoSet],
     machine |-> [m \in Machines |-> NoSet]]

----------------------------------------------------------------------------
(* The Fire call in progress. *)

\* stack: the frames of the Fire calls suspended in a handler that called Fire itself
IdleFrame ==
    [pc |-> "idle", inst |-> 0, state |-> Nil, next |-> Nil,
     ctx |-> NilCtx, nextCtx |-> NilCtx, li |-> 0, stack |-> <<>>]

NoCall == [inst |-> 0, key |-> Nil, data |-> Nil, before |-> Nil]
NoRet == [err |-> "none", state |-> Nil, key |-> Nil]
RetOk == [err |-> Nil, state |-> Nil, key |-> Nil]

ErrTransitionNotFound(state, key) ==
    [err |-> "ErrTransitionNotFound", state |-> state, key |-> key]

\* a goroutine that has made no Fire call
\* before the first Dot call
NoDot == [called |-> FALSE, machine |-> 0, currentState |-> Nil,
          nodes |-> <<>>, nodeLines |-> <<>>, transitions |-> <<>>, text |-> <<>>]

NoGoroutine == [fr |-> IdleFrame, call |-> NoCall, ret |-> NoRet, log |-> <<>>, eps |-> <<>>]

\* an instance positioned at state that has not fired
StandsAt(state) == [state |-> state, ret |-> NoRet]

ZeroCounts == [s \in StateIds |-> [enter |-> 0, exit |-> 0, event |-> 0]]

\* one entry of the tracker: which handler ran, for which state or listener,
\* what its context held, and the instance's current state at that moment
LogEntry(kind, state, lis, c, i) ==
    [kind |-> kind, state |-> state, lis |-> lis, key |-> c.eventKey,
     data |-> c.data, from |-> c.from, to |-> c.to,
     cur |-> inst[i].currentState, ep |-> Len(eps)]

----------------------------------------------------------------------------
(* Construction and configuration. *)

\* NewInstance calling the onEnter of the state the instance is positioned at
NewInstanceEntering(i, state, name) ==
    /\ fr.pc = "idle"
    /\ ~inst[i].live
    /\ \A j \in Instances : j < i => inst[j].live
    /\ sm' = [sm EXCEPT ![i] = sm[0]]
    /\ inst' = [inst EXCEPT ![i] = [live |-> TRUE, currentState |-> state]]
    /\ lastSet' = [lastSet EXCEPT !.machine[i] = lastSet.machine[0]]
    /\ made' = [inst |-> i, err |-> Nil, state |-> state, name |-> name]
    /\ alone' = [alone EXCEPT ![i] = StandsAt(state)]
    /\ calls' = [calls EXCEPT ![state].enter = @ + 1]
    /\ UNCHANGED <<stateObjs, arrs, fr, call, ret, log, eps, epis, fires, lisVia,
                   states, parked, gor, dot>>

\* smCopy := *s; &StateMachineInstance{StateMachine: &smCopy, currentState: state}
\* the new instance is number i; name is the name it was looked up by, if any
NewInstance(i, state, name) ==
    /\ fr.pc = "idle"
    /\ ~inst[i].live
    /\ \A j \in Instances : j < i => inst[j].live
    /\ sm' = [sm EXCEPT ![i] = sm[0]]
    /\ inst' = [inst EXCEPT ![i] = [live |-> TRUE, currentState |-> state]]
    /\ lastSet' = [lastSet EXCEPT !.machine[i] = lastSet.machine[0]]
    /\ made' = [inst |-> i, err |-> Nil, state |-> state, name |-> name]
    /\ alone' = [alone EXCEPT ![i] = StandsAt(state)]
    /\ UNCHANGED <<stateObjs, arrs, fr, call, ret, log, eps, calls, epis, fires, lisVia,
                   states, parked, gor, dot>>

\* (s *StateMachine) FromState(state)
FromState(i, state) == NewInstance(i, state, Nil)

\* Lookup finding a state under every name
LookupAlwaysOk(name) == [state |-> states[name], ok |-> TRUE]

\* state, ok := s.states[name]
Lookup(name) == [state |-> states[name], ok |-> states[name] # Nil]

\* (s *StateMachine) FromStateName(name)
FromStateName(i, name) ==
    LET r == Lookup(name)
    IN IF ~r.ok
       THEN /\ fr.pc = "idle"
            /\ made' = ErrStateNotFound(name)
            /\ UNCHANGED <<stateObjs, sm, arrs, inst, fr, call, ret, log, eps, calls, epis,
                           fires, lisVia, lastSet, states, parked, gor, alone, dot>>
       ELSE NewInstance(i, r.state, name)

\* the StateMachine struct m exists: the definition, or the copy of a created instance
Exists(m) == IF m = 0 THEN TRUE ELSE inst[m].live

\* the capacity append gives a slice that is full (the Go runtime doubles small slices)
GrowCap(cap) == IF cap = 0 THEN 1 ELSE 2 * cap

\* s.onTransitionListeners = append(s.onTransitionListeners, listener)
\* on the StateMachine struct m; the listener is a new closure, number Len(lisVia) + 1
AddOnTransition(m) ==
    LET hdr == sm[m].onTransitionListeners
        l == Len(lisVia) + 1
    IN /\ fr.pc = "idle"
       /\ Exists(m)
       /\ Len(lisVia) < MaxListeners
       /\ IF hdr.len < hdr.cap
          THEN /\ arrs' = [arrs EXCEPT ![hdr.arr][hdr.len + 1] = l]
               /\ sm' = [sm EXCEPT ![m].onTransitionListeners.len = hdr.len + 1]
          ELSE LET newcap == GrowCap(hdr.cap)
                   fresh == [k \in 1..newcap |->
                               IF k <= hdr.len THEN SliceAt(hdr, k)
                               ELSE IF k = hdr.len + 1 THEN l ELSE 0]
               IN /\ arrs' = Append(arrs, fresh)
                  /\ sm' = [sm EXCEPT ![m].onTransitionListeners =
                               [arr |-> Len(arrs) + 1, len |-> hdr.len + 1, cap |-> newcap]]
       /\ lisVia' = Append(lisVia, m)
       /\ UNCHANGED <<stateObjs, inst, fr, call, ret, log, eps, calls, epis, fires,
                      lastSet, states, made, parked, gor, alone, dot>>

\* (s *StateMachine) AddState(name, opts...) on the StateMachine struct m, with the
\* three handlers createFSM gives every state; the new State struct takes the free
\* cell of the heap, the states map is the one all copies share
AddState(m, name) ==
    LET hdr == sm[m].orderedStates
        id == CHOOSE x \in StateIds : stateObjs[x].name = Nil
    IN /\ fr.pc = "idle"
       /\ Exists(m)
       /\ \E x \in StateIds : stateObjs[x].name = Nil
       /\ stateObjs' = [stateObjs EXCEPT ![id] = NewState(name)]
       /\ states' = [states EXCEPT ![name] = id]
       /\ IF hdr.len < hdr.cap
          THEN /\ arrs' = [arrs EXCEPT ![hdr.arr][hdr.len + 1] = id]
               /\ sm' = [sm EXCEPT ![m].orderedStates.len = hdr.len + 1]
          ELSE LET newcap == GrowCap(hdr.cap)
                   fresh == [k \in 1..newcap |->
                               IF k <= hdr.len THEN SliceAt(hdr, k)
                               ELSE IF k = hdr.len + 1 THEN id ELSE Nil]
               IN /\ arrs' = Append(arrs, fresh)
                  /\ sm' = [sm EXCEPT ![m].orderedStates =
                               [arr |-> Len(arrs) + 1, len |-> hdr.len + 1, cap |-> newcap]]
       /\ UNCHANGED <<inst, fr, call, ret, log, eps, calls, epis, fires, lisVia,
                      lastSet, made, parked, gor, alone, dot>>

\* the states whose fallback the model reconfigures, and the targets it draws
FallbackScope == {"yellow"}
StateFallbackTargets == {Nil, "exit"}
MachineFallbackTargets == {Nil, "red"}

\* (s *State) SetFallbackTransition(to)
StateSetFallbackTransition(s, to) ==
    /\ fr.pc = "idle"
    /\ stateObjs' = [stateObjs EXCEPT ![s].fallbackTransition = to,
                                      ![s].fallbackHandler = NoFallbackHandler]
    /\ lastSet' = [lastSet EXCEPT !.state[s] = [kind |-> "static", arg |-> to]]
    /\ UNCHANGED <<sm, arrs, inst, fr, call, ret, log, eps, calls, epis, fires, lisVia,
                   states, made, parked, gor, alone, dot>>

\* StateSetFallbackHandler that leaves the fallback transition in place
StateSetFallbackHandlerAdditive(s, handler) ==
    /\ fr.pc = "idle"
    /\ stateObjs' = [stateObjs EXCEPT ![s].fallbackHandler = handler]
    /\ lastSet' = [lastSet EXCEPT !.state[s] = [kind |-> "dynamic", arg |-> handler]]
    /\ UNCHANGED <<sm, arrs, inst, fr, call, ret, log, eps, calls, epis, fires, lisVia,
                   states, made, parked, gor, alone, dot>>

\* (s *State) SetFallbackHandler(handler)
StateSetFallbackHandler(s, handler) ==
    /\ fr.pc = "idle"
    /\ stateObjs' = [stateObjs EXCEPT ![s].fallbackHandler = handler,
                                      ![s].fallbackTransition = Nil]
    /\ lastSet' = [lastSet EXCEPT !.state[s] = [kind |-> "dynamic", arg |-> handler]]
    /\ UNCHANGED <<sm, arrs, inst, fr, call, ret, log, eps, calls, epis, fires, lisVia,
                   states, made, parked, gor, alone, dot>>

\* (s *StateMachine) SetFallbackState(state), on the StateMachine struct m
\* SetFallbackState on a definition that FromState hands out instead of a copy of it:
\* the assignment reaches the definition and every instance
SetFallbackStateShared(m, state) ==
    /\ fr.pc = "idle"
    /\ Exists(m)
    /\ sm' = [k \in Machines |-> [sm[k] EXCEPT !.fallbackState = state,
                                               !.fallbackHandler = NoFallbackHandler]]
    /\ lastSet' = [lastSet EXCEPT !.machine[m] = [kind |-> "static", arg |-> state]]
    /\ UNCHANGED <<stateObjs, arrs, inst, fr, call, ret, log, eps, calls, epis, fires, lisVia,
                   states, made, parked, gor, alone, dot>>

SetFallbackState(m, state) ==
    /\ fr.pc = "idle"
    /\ Exists(m)
    /\ sm' = [sm EXCEPT ![m].fallbackState = state,
                        ![m].fallbackHandler = NoFallbackHandler]
    /\ lastSet' = [lastSet EXCEPT !.machine[m] = [kind |-> "static", arg |-> state]]
    /\ UNCHANGED <<stateObjs, arrs, inst, fr, call, ret, log, eps, calls, epis, fires, lisVia,
                   states, made, parked, gor, alone, dot>>

\* (s *StateMachine) SetFallbackHandler(handler), on the StateMachine struct m
SetFallbackHandler(m, handler) ==
    /\ fr.pc = "idle"
    /\ Exists(m)
    /\ sm' = [sm EXCEPT ![m].fallbackHandler = handler,
                        ![m].fallbackState = Nil]
    /\ lastSet' = [lastSet EXCEPT !.machine[m] = [kind |-> "dynamic", arg |-> handler]]
    /\ UNCHANGED <<stateObjs, arrs, inst, fr, call, ret, log, eps, calls, epis, fires, lisVia,
                   states, made, parked, gor, alone, dot>>

----------------------------------------------------------------------------
(* Firing.  StateMachineInstance.Fire calls StateMachine.Fire, which calls *)
(* fire; fire resolves the target, calls transition and, when transition   *)
(* returns a next context, calls itself on the target (a tail call).       *)

\* Resolve whose lookup of the keyed transition misses on every other Fire call
ResolveAlternating(state, machine, key) ==
    LET s == stateObjs[state]
        n1 == IF fires % 2 = 1 THEN s.transitions[key] ELSE Nil
        n2 == IF n1 = Nil THEN s.fallbackTransition ELSE n1
        c3 == n2 = Nil /\ s.fallbackHandler.set
        n3 == IF c3 THEN s.fallbackHandler.ret ELSE n2
        n4 == IF n3 = Nil THEN machine.fallbackState ELSE n3
        c5 == n4 = Nil /\ machine.fallbackHandler.set
        n5 == IF c5 THEN machine.fallbackHandler.ret ELSE n4
    IN [next |-> n5, stateHandler |-> c3, machineHandler |-> c5]

\* Resolve with the machine's static fallback consulted before the state's fallbacks
ResolveMachineFirst(state, machine, key) ==
    LET s == stateObjs[state]
        n1 == s.transitions[key]
        n2 == IF n1 = Nil THEN machine.fallbackState ELSE n1
        n3 == IF n2 = Nil THEN s.fallbackTransition ELSE n2
        c3 == n3 = Nil /\ s.fallbackHandler.set
        n4 == IF c3 THEN s.fallbackHandler.ret ELSE n3
        c5 == n4 = Nil /\ machine.fallbackHandler.set
        n5 == IF c5 THEN machine.fallbackHandler.ret ELSE n4
    IN [next |-> n5, stateHandler |-> c3, machineHandler |-> c5]

\* the target of fire (lines 273-291), and which fallback handlers it calls on the way
Resolve(state, machine, key) ==
    LET s == stateObjs[state]
        n1 == s.transitions[key]
        n2 == IF n1 = Nil THEN s.fallbackTransition ELSE n1
        c3 == n2 = Nil /\ s.fallbackHandler.set
        n3 == IF c3 THEN s.fallbackHandler.ret ELSE n2
        n4 == IF n3 = Nil THEN machine.fallbackState ELSE n3
        c5 == n4 = Nil /\ machine.fallbackHandler.set
        n5 == IF c5 THEN machine.fallbackHandler.ret ELSE n4
    IN [next |-> n5, stateHandler |-> c3, machineHandler |-> c5]

\* DiffState taking every transition for a change of state
DiffStateAlways(nextState, currentState) == TRUE

\* diffState := nextState != currentState, a comparison of pointers
DiffState(nextState, currentState) == nextState # currentState

\* Phases with onEnter called before onExit
PhasesEnterFirst == <<"enter", "exit", "event", "notify">>

\* Phases with the listeners notified before onEvent is called
PhasesNotifyFirst == <<"exit", "enter", "notify", "event">>

\* the blocks of transition, in program order
Phases == <<"exit", "enter", "event", "notify">>

NextPc(p) ==
    LET k == CHOOSE n \in 1..Len(Phases) : Phases[n] = p
    IN IF k < Len(Phases) THEN Phases[k + 1] ELSE "return"

\* RangeListeners visiting the listeners from the last registered to the first
RangeListenersReversed(hdr) == [k \in 1..hdr.len |-> arrs[hdr.arr][hdr.len + 1 - k]]

\* for _, v := range s.onTransitionListeners: the listeners in the order visited
RangeListeners(hdr) == SliceElems(hdr)

\* the frame after handler h has run in frame f, which is where f goes on when h
\* returns: a handler that calls Fire(h.refire) on its instance suspends f and starts
\* StateMachineInstance.Fire from the instance's current state
AfterHandler(f, h) ==
    IF h.refire = Nil THEN f
    ELSE [IdleFrame EXCEPT !.pc = "fire", !.inst = f.inst,
                           !.state = inst[f.inst].currentState,
                           !.ctx = NewContext(h.refire),
                           !.stack = <<[f EXCEPT !.stack = <<>>]>> \o f.stack]

\* the frame a returning Fire call goes back to: the handler that called it, or none
Resume(f) ==
    IF f.stack = <<>> THEN IdleFrame
    ELSE [Head(f.stack) EXCEPT !.stack = Tail(f.stack)]

Bump(cnt, s, f) == [cnt EXCEPT ![s][f] = @ + 1]

\* what StateMachineInstance.Fire does to an instance that nothing else touches: the
\* current state it leaves and the result it returns, for a call that entered fire
\* with the context ctx at state, the instance standing at origin
RECURSIVE FireAlone(_, _, _, _)
FireAlone(origin, state, ctx, machine) ==
    LET r == Resolve(state, machine, ctx.eventKey)
        diff == DiffState(r.next, state)
        c1 == SetTo(SetFrom(ctx, state), r.next)
        c2 == IF diff /\ state # Nil /\ stateObjs[state].onExit.set
              THEN RunHandler(c1, stateObjs[state].onExit) ELSE c1
        c3 == IF diff /\ stateObjs[r.next].onEnter.set
              THEN RunHandler(c2, stateObjs[r.next].onEnter) ELSE c2
        c4 == RunHandler(c3, stateObjs[r.next].onEvent)
        nextCtx == IF stateObjs[r.next].onEvent.set THEN nextContext(c4) ELSE NilCtx
    IN IF r.next = Nil
       THEN [state |-> origin,
             ret |-> ErrTransitionNotFound(stateObjs[state].name, ctx.eventKey)]
       ELSE IF nextCtx.isNil
            THEN [state |-> r.next, ret |-> RetOk]
            ELSE FireAlone(origin, r.next, nextCtx, machine)

\* the options an external caller passes to Fire
FireOptions == {<<>>} \cup {<<d>> : d \in DataValues}

\* StateMachineInstance.Fire(key, options...) up to the call of fire
FireCall(i, key, options) ==
    LET ctx == ApplyOptions(NewContext(key), options)
    IN /\ fr.pc = "idle"
       /\ inst[i].live
       /\ fires < MaxFires
       /\ fr' = [IdleFrame EXCEPT !.pc = "fire", !.inst = i,
                                  !.state = inst[i].currentState, !.ctx = ctx]
       /\ call' = [inst |-> i, key |-> key, data |-> ctx.data,
                   before |-> inst[i].currentState]
       /\ ret' = NoRet
       /\ log' = <<>>
       /\ eps' = <<>>
       /\ fires' = fires + 1
       /\ alone' = [alone EXCEPT ![i] = FireAlone(@.state, @.state, ctx, sm[i])]
       /\ UNCHANGED <<stateObjs, sm, arrs, inst, calls, epis, lisVia,
                      lastSet, states, made, parked, gor, dot>>

\* fire, lines 273-295, and the first line of transition
FireResolve ==
    LET r == Resolve(fr.state, sm[fr.inst], fr.ctx.eventKey)
        l1 == IF r.stateHandler
              THEN <<[LogEntry("stateFallback", fr.state, 0, fr.ctx, fr.inst)
                        EXCEPT !.ep = Len(eps) + 1]>>
              ELSE <<>>
        l2 == IF r.machineHandler
              THEN <<[LogEntry("machineFallback", Nil, 0, fr.ctx, fr.inst)
                        EXCEPT !.ep = Len(eps) + 1]>>
              ELSE <<>>
    IN /\ fr.pc = "fire"
       /\ log' = log \o l1 \o l2
       /\ IF r.next = Nil
          THEN /\ ret' = ErrTransitionNotFound(stateObjs[fr.state].name, fr.ctx.eventKey)
               /\ fr' = [fr EXCEPT !.pc = "error"]
               /\ UNCHANGED <<eps, epis>>
          ELSE /\ fr' = [fr EXCEPT !.pc = Phases[1], !.next = r.next,
                                   !.ctx = SetTo(SetFrom(fr.ctx, fr.state), r.next),
                                   !.nextCtx = NilCtx, !.li = 0]
               /\ eps' = Append(eps, [from |-> fr.state, to |-> r.next,
                                      key |-> fr.ctx.eventKey, data |-> fr.ctx.data])
               /\ epis' = LET e1 == Bump(epis, r.next, "event")
                          IN IF r.next # fr.state
                             THEN Bump(Bump(e1, r.next, "enter"), fr.state, "exit")
                             ELSE e1
               /\ UNCHANGED ret
       /\ UNCHANGED <<stateObjs, sm, arrs, inst, call, calls, fires, lisVia,
                      lastSet, states, made, parked, gor, alone, dot>>

\* transition, lines 310-314
OnExit ==
    LET h == stateObjs[fr.state].onExit
    IN /\ fr.pc = "exit"
       /\ IF DiffState(fr.next, fr.state) /\ fr.state # Nil /\ h.set
          THEN /\ log' = Append(log, LogEntry("exit", fr.state, 0, fr.ctx, fr.inst))
               /\ calls' = Bump(calls, fr.state, "exit")
               /\ fr' = AfterHandler([fr EXCEPT !.pc = NextPc("exit"),
                                                !.ctx = RunHandler(fr.ctx, h)], h)
          ELSE /\ fr' = [fr EXCEPT !.pc = NextPc("exit")]
               /\ UNCHANGED <<log, calls>>
       /\ UNCHANGED <<stateObjs, sm, arrs, inst, call, ret, eps, epis, fires, lisVia,
                      lastSet, states, made, parked, gor, alone, dot>>

\* transition, lines 316-318
OnEnter ==
    LET h == stateObjs[fr.next].onEnter
    IN /\ fr.pc = "enter"
       /\ IF DiffState(fr.next, fr.state) /\ h.set
          THEN /\ log' = Append(log, LogEntry("enter", fr.next, 0, fr.ctx, fr.inst))
               /\ calls' = Bump(calls, fr.next, "enter")
               /\ fr' = AfterHandler([fr EXCEPT !.pc = NextPc("enter"),
                                                !.ctx = RunHandler(fr.ctx, h)], h)
          ELSE /\ fr' = [fr EXCEPT !.pc = NextPc("enter")]
               /\ UNCHANGED <<log, calls>>
       /\ UNCHANGED <<stateObjs, sm, arrs, inst, call, ret, eps, epis, fires, lisVia,
                      lastSet, states, made, parked, gor, alone, dot>>

\* transition, lines 320-324
OnEvent ==
    LET h == stateObjs[fr.next].onEvent
        c == RunHandler(fr.ctx, h)
    IN /\ fr.pc = "event"
       /\ IF h.set
          THEN /\ log' = Append(log, LogEntry("event", fr.next, 0, fr.ctx, fr.inst))
               /\ calls' = Bump(calls, fr.next, "event")
               /\ fr' = AfterHandler([fr EXCEPT !.pc = NextPc("event"), !.ctx = c,
                                                !.nextCtx = nextContext(c)], h)
          ELSE /\ fr' = [fr EXCEPT !.pc = NextPc("event")]
               /\ UNCHANGED <<log, calls>>
       /\ UNCHANGED <<stateObjs, sm, arrs, inst, call, ret, eps, epis, fires, lisVia,
                      lastSet, states, made, parked, gor, alone, dot>>

\* fireOnTransition: one iteration of the loop
NotifyOne ==
    LET order == RangeListeners(sm[fr.inst].onTransitionListeners)
        l == order[fr.li + 1]
    IN /\ fr.pc = "notify"
       /\ fr.li < Len(order)
       /\ log' = Append(log, LogEntry("listener", Nil, l, fr.ctx, fr.inst))
       /\ fr' = [fr EXCEPT !.li = fr.li + 1, !.ctx = RunHandler(fr.ctx, ListenerBody(l))]
       /\ UNCHANGED <<stateObjs, sm, arrs, inst, call, ret, eps, calls, epis, fires, lisVia,
                      lastSet, states, made, parked, gor, alone, dot>>

\* fireOnTransition: the loop ends
NotifyDone ==
    LET order == RangeListeners(sm[fr.inst].onTransitionListeners)
    IN /\ fr.pc = "notify"
       /\ fr.li >= Len(order)
       /\ fr' = [fr EXCEPT !.pc = NextPc("notify"), !.li = 0]
       /\ UNCHANGED <<stateObjs, sm, arrs, inst, call, ret, log, eps, calls, epis, fires, lisVia,
                      lastSet, states, made, parked, gor, alone, dot>>

\* fire, lines 297-300: transition returned a next context
FireChain ==
    /\ fr.pc = "return"
    /\ ~fr.nextCtx.isNil
    /\ fr' = [fr EXCEPT !.pc = "fire", !.state = fr.next, !.next = Nil,
                        !.ctx = fr.nextCtx, !.nextCtx = NilCtx]
    /\ UNCHANGED <<stateObjs, sm, arrs, inst, call, ret, log, eps, calls, epis, fires, lisVia,
                   lastSet, states, made, parked, gor, alone, dot>>

\* FireReturn keeping the current state in the definition all instances share
FireReturnShared ==
    /\ fr.pc = "return"
    /\ fr.nextCtx.isNil
    /\ inst' = [i \in Instances |->
                  IF inst[i].live THEN [inst[i] EXCEPT !.currentState = fr.next]
                  ELSE inst[i]]
    /\ ret' = IF fr.stack = <<>> THEN RetOk ELSE ret
    /\ fr' = Resume(fr)
    /\ UNCHANGED <<stateObjs, sm, arrs, call, log, eps, calls, epis, fires, lisVia,
                   lastSet, states, made, parked, gor, alone, dot>>

\* FireReturn in which StateMachine.Fire succeeds with no state: return nil, nil
FireReturnUnset ==
    /\ fr.pc = "return"
    /\ fr.nextCtx.isNil
    /\ inst' = [inst EXCEPT ![fr.inst].currentState = Nil]
    /\ ret' = IF fr.stack = <<>> THEN RetOk ELSE ret
    /\ fr' = Resume(fr)
    /\ UNCHANGED <<stateObjs, sm, arrs, call, log, eps, calls, epis, fires, lisVia,
                   lastSet, states, made, parked, gor, alone, dot>>

\* FireReturn that never hands the result back to the caller
FireReturnNever ==
    /\ fr.pc = "return"
    /\ fr.nextCtx.isNil
    /\ UNCHANGED vars

\* fire, line 302, StateMachine.Fire, line 269, StateMachineInstance.Fire, lines 365-366
FireReturn ==
    /\ fr.pc = "return"
    /\ fr.nextCtx.isNil
    /\ inst' = [inst EXCEPT ![fr.inst].currentState = fr.next]
    /\ ret' = IF fr.stack = <<>> THEN RetOk ELSE ret
    /\ fr' = Resume(fr)
    /\ UNCHANGED <<stateObjs, sm, arrs, call, log, eps, calls, epis, fires, lisVia,
                   lastSet, states, made, parked, gor, alone, dot>>

\* FireError without the check of err: the nil state Fire returned is committed
FireErrorCommits ==
    /\ fr.pc = "error"
    /\ fr' = IdleFrame
    /\ inst' = [inst EXCEPT ![fr.inst].currentState = Nil]
    /\ UNCHANGED <<stateObjs, sm, arrs, call, ret, log, eps, calls, epis, fires, lisVia,
                   lastSet, states, made, parked, gor, alone, dot>>

\* StateMachine.Fire, lines 266-268, StateMachineInstance.Fire, lines 362-364
FireError ==
    /\ fr.pc = "error"
    /\ fr' = Resume(fr)
    /\ UNCHANGED <<stateObjs, sm, arrs, inst, call, ret, log, eps, calls, epis, fires, lisVia,
                   lastSet, states, made, parked, gor, alone, dot>>

FireSteps ==
    \/ FireResolve
    \/ OnExit
    \/ OnEnter
    \/ OnEvent
    \/ NotifyOne
    \/ NotifyDone
    \/ FireChain
    \/ FireReturn
    \/ FireError

----------------------------------------------------------------------------
(* Graph rendering: StateMachine.Dot.  A Go string is the sequence of its  *)
(* bytes; the literals of the renderer are written out as byte sequences.  *)

\* 'digraph finite_state_machine {\n\trankdir=LR;\n\tnode [shape = circle];\n\t# nodes\n'
TxtHeader ==
    <<100, 105, 103, 114, 97, 112, 104, 32, 102, 105, 110, 105, 116, 101, 95,
    115, 116, 97, 116, 101, 95, 109, 97, 99, 104, 105, 110, 101, 32, 123, 10,
    9, 114, 97, 110, 107, 100, 105, 114, 61, 76, 82, 59, 10, 9, 110, 111, 100,
    101, 32, 91, 115, 104, 97, 112, 101, 32, 61, 32, 99, 105, 114, 99, 108,
    101, 93, 59, 10, 9, 35, 32, 110, 111, 100, 101, 115, 10>>

\* '\t'
TxtTab ==
    <<9>>

\* ' [style=filled'
TxtStyleFilled ==
    <<32, 91, 115, 116, 121, 108, 101, 61, 102, 105, 108, 108, 101, 100>>

\* ', fillcolor=gold'
TxtFillGold ==
    <<44, 32, 102, 105, 108, 108, 99, 111, 108, 111, 114, 61, 103, 111, 108,
    100>>

\* ', shape=doublecircle'
TxtDoubleCircle ==
    <<44, 32, 115, 104, 97, 112, 101, 61, 100, 111, 117, 98, 108, 101, 99,
    105, 114, 99, 108, 101>>

\* ']'
TxtBracket ==
    <<93>>

\* ';\n'
TxtEndNode ==
    <<59, 10>>

\* '\t# transitions\n'
TxtTransitions ==
    <<9, 35, 32, 116, 114, 97, 110, 115, 105, 116, 105, 111, 110, 115, 10>>

\* ' -> '
TxtArrow ==
    <<32, 45, 62, 32>>

\* ' [label = "'
TxtLabelOpen ==
    <<32, 91, 108, 97, 98, 101, 108, 32, 61, 32, 34>>

\* '"];\n'
TxtLabelClose ==
    <<34, 93, 59, 10>>

\* ' [label="state fallback", style=dashed];\n'
TxtStateFallback ==
    <<32, 91, 108, 97, 98, 101, 108, 61, 34, 115, 116, 97, 116, 101, 32, 102,
    97, 108, 108, 98, 97, 99, 107, 34, 44, 32, 115, 116, 121, 108, 101, 61,
    100, 97, 115, 104, 101, 100, 93, 59, 10>>

\* ' [label="machine fallback", style=dashed];\n'
TxtMachineFallback ==
    <<32, 91, 108, 97, 98, 101, 108, 61, 34, 109, 97, 99, 104, 105, 110, 101,
    32, 102, 97, 108, 108, 98, 97, 99, 107, 34, 44, 32, 115, 116, 121, 108,
    101, 61, 100, 97, 115, 104, 101, 100, 93, 59, 10>>

\* '\t# title\n\tlabelloc="t";\n\tlabel="'
TxtTitle ==
    <<9, 35, 32, 116, 105, 116, 108, 101, 10, 9, 108, 97, 98, 101, 108, 108,
    111, 99, 61, 34, 116, 34, 59, 10, 9, 108, 97, 98, 101, 108, 61, 34>>

\* '";\n}'
TxtEnd ==
    <<34, 59, 10, 125>>

\* the name createFSM gives the machine: fsm.NewStateMachine("SimpleTransition")
\* 'SimpleTransition'
MachineName ==
    <<83, 105, 109, 112, 108, 101, 84, 114, 97, 110, 115, 105, 116, 105, 111,
    110>>

\* the bytes of the state names
NameText(n) ==
    CASE n = "GREEN" -> <<71, 82, 69, 69, 78>>
      [] n = "YELLOW" -> <<89, 69, 76, 76, 79, 87>>
      [] n = "BOUNCE" -> <<66, 79, 85, 78, 67, 69>>
      [] n = "RED" -> <<82, 69, 68>>
      [] n = "EXIT" -> <<69, 88, 73, 84>>
      [] n = "PURPLE" -> <<80, 85, 82, 80, 76, 69>>

\* fmt's %+v of an event key: the keys of the fixture are strings, printed as they are
KeyText(k) ==
    CASE k = TICK -> <<84, 73, 67, 75>>
      [] k = CONTINUE -> <<67, 79, 78, 84, 73, 78, 85, 69>>
      [] k = LOOP -> <<76, 79, 79, 80>>
      [] k = UNKNOWN -> <<85, 78, 75, 78, 79, 87, 78>>

\* the comparison of Go strings: byte by byte, a proper prefix first
LexLess(a, b) ==
    LET n == IF Len(a) < Len(b) THEN Len(a) ELSE Len(b)
        d == {i \in 1..n : a[i] # b[i]}
    IN IF d = {}
       THEN Len(a) < Len(b)
       ELSE LET i == CHOOSE j \in d : \A h \in d : j <= h
            IN a[i] < b[i]

\* x put into the sorted sequence s
SortedInsert(x, s) ==
    LET k == Cardinality({i \in 1..Len(s) : ~LexLess(x, s[i])})
    IN SubSeq(s, 1, k) \o <<x>> \o SubSeq(s, k + 1, Len(s))

\* sort.Strings that leaves the slice as it was appended to
SortStringsNot(s) == s

\* sort.Strings: the strings in increasing order
RECURSIVE SortStrings(_)
SortStrings(s) ==
    IF s = <<>> THEN <<>> ELSE SortedInsert(Head(s), SortStrings(Tail(s)))

\* the strings of ss written one after the other into the buffer
RECURSIVE WriteStrings(_)
WriteStrings(ss) ==
    IF ss = <<>> THEN <<>> ELSE Head(ss) \o WriteStrings(Tail(ss))

\* the elements of the sequence s that satisfy keep, in their order
RECURSIVE Filter(_, _)
Filter(s, keep) ==
    IF s = <<>> THEN <<>>
    ELSE IF keep[Head(s)] THEN <<Head(s)>> \o Filter(Tail(s), keep)
         ELSE Filter(Tail(s), keep)

\* isEnd for which a static fallback of the state is a transition as well
isEndCountingFallback(state) ==
    /\ \A k \in Keys : stateObjs[state].transitions[k] = Nil
    /\ stateObjs[state].fallbackTransition = Nil

\* isEnd: len(state.transitions) == 0
isEnd(state) == \A k \in Keys : stateObjs[state].transitions[k] = Nil

\* isStart that does not skip the state itself
isStartCountingSelf(state) ==
    \A n \in Names :
       states[n] # Nil =>
          \A k \in Keys :
             LET t == stateObjs[states[n]].transitions[k]
             IN t # Nil => stateObjs[t].name # stateObjs[state].name

\* isStart: no keyed transition of a state of the states map that has another name
\* leads to a state with the name of this one
isStart(state) ==
    \A n \in Names :
       (states[n] # Nil /\ stateObjs[states[n]].name # stateObjs[state].name) =>
          \A k \in Keys :
             LET t == stateObjs[states[n]].transitions[k]
             IN t # Nil => stateObjs[t].name # stateObjs[state].name

\* NodesOf visiting the states from the last added to the first
NodesOfReversed(ordered) ==
    [i \in 1..Len(ordered) |->
        LET state == ordered[Len(ordered) + 1 - i]
        IN [name |-> stateObjs[state].name, edge |-> isEnd(state) \/ isStart(state)]]

\* nodes, for the orderedStates given: one node per element, in the order of the slice
NodesOf(ordered) ==
    [i \in 1..Len(ordered) |->
        [name |-> stateObjs[ordered[i]].name,
         edge |-> isEnd(ordered[i]) \/ isStart(ordered[i])]]

nodes(m) == NodesOf(SliceElems(sm[m].orderedStates))

\* what the nodes loop of Dot writes for node n
NodeLine(n, currentState) ==
    LET active == n.name = stateObjs[currentState].name
    IN TxtTab \o NameText(n.name)
       \o (IF active \/ n.edge
           THEN TxtStyleFilled
                \o (IF active THEN TxtFillGold ELSE TxtDoubleCircle)
                \o TxtBracket
           ELSE <<>>)
       \o TxtEndNode

\* fmt.Sprintf("\t%s -> %s [label = \"%+v\"];\n", s.name, v.name, k)
KeyedLine(s, v, k) ==
    TxtTab \o NameText(stateObjs[s].name) \o TxtArrow \o NameText(stateObjs[v].name)
    \o TxtLabelOpen \o KeyText(k) \o TxtLabelClose

\* fmt.Sprintf("\t%s -> %s [label=\"state fallback\", style=dashed];\n", ...)
StateFallbackLine(s, to) ==
    TxtTab \o NameText(stateObjs[s].name) \o TxtArrow \o NameText(stateObjs[to].name)
    \o TxtStateFallback

\* fmt.Sprintf("\t%s -> %s [label=\"machine fallback\", style=dashed];\n", ...)
MachineFallbackLine(s, to) ==
    TxtTab \o NameText(stateObjs[s].name) \o TxtArrow \o NameText(stateObjs[to].name)
    \o TxtMachineFallback

\* TransitionsOf appending the machine fallback only for a state without its own
TransitionsOfElse(fallbackState, s, keyOrder) ==
    LET ks == Filter(keyOrder, [k \in Keys |-> stateObjs[s].transitions[k] # Nil])
    IN [i \in 1..Len(ks) |-> KeyedLine(s, stateObjs[s].transitions[ks[i]], ks[i])]
       \o (IF stateObjs[s].fallbackTransition # Nil
           THEN <<StateFallbackLine(s, stateObjs[s].fallbackTransition)>>
           ELSE IF fallbackState # Nil
                THEN <<MachineFallbackLine(s, fallbackState)>>
                ELSE <<>>)

\* the body of `for _, s := range m.states`: what is appended to transitions for
\* the state s when the range over s.transitions visits the keys in keyOrder
TransitionsOf(fallbackState, s, keyOrder) ==
    LET ks == Filter(keyOrder, [k \in Keys |-> stateObjs[s].transitions[k] # Nil])
    IN [i \in 1..Len(ks) |-> KeyedLine(s, stateObjs[s].transitions[ks[i]], ks[i])]
       \o (IF stateObjs[s].fallbackTransition # Nil
           THEN <<StateFallbackLine(s, stateObjs[s].fallbackTransition)>>
           ELSE <<>>)
       \o (IF fallbackState # Nil
           THEN <<MachineFallbackLine(s, fallbackState)>>
           ELSE <<>>)

\* the transitions slice before it is sorted, when the range over m.states visits
\* the names in stateOrder
RECURSIVE AppendedTransitions(_, _, _)
AppendedTransitions(fallbackState, stateOrder, keyOrder) ==
    IF stateOrder = <<>> THEN <<>>
    ELSE (IF states[Head(stateOrder)] # Nil
          THEN TransitionsOf(fallbackState, states[Head(stateOrder)], keyOrder)
          ELSE <<>>)
         \o AppendedTransitions(fallbackState, Tail(stateOrder), keyOrder)

\* Dot for a machine with the given orderedStates and fallbackState
Render(ordered, fallbackState, currentState, stateOrder, keyOrder) ==
    LET ns == NodesOf(ordered)
        nodeLines == [i \in 1..Len(ns) |-> NodeLine(ns[i], currentState)]
        transitions == SortStrings(AppendedTransitions(fallbackState, stateOrder, keyOrder))
    IN [nodes |-> ns, nodeLines |-> nodeLines, transitions |-> transitions,
        text |-> TxtHeader \o WriteStrings(nodeLines) \o TxtTransitions
                 \o WriteStrings(transitions) \o TxtTitle \o MachineName \o TxtEnd]

\* StateMachine.Dot(currentState) on the struct m
Dot(m, currentState, stateOrder, keyOrder) ==
    LET r == Render(SliceElems(sm[m].orderedStates), sm[m].fallbackState,
                    currentState, stateOrder, keyOrder)
    IN [called |-> TRUE, machine |-> m, currentState |-> currentState,
        nodes |-> r.nodes, nodeLines |-> r.nodeLines,
        transitions |-> r.transitions, text |-> r.text]

\* the sequence s from its last element to its first
Reverse(s) == [i \in 1..Len(s) |-> s[Len(s) + 1 - i]]

\* the orders in which a range over the states map may visit the names: Go leaves
\* the order of a range over a map open, three orders stand for it
StateOrders ==
    LET o == <<"GREEN", "YELLOW", "BOUNCE", "RED", "EXIT", "PURPLE">>
    IN {o, Reverse(o), <<"RED", "PURPLE", "BOUNCE", "GREEN", "EXIT", "YELLOW">>}

\* the orders in which a range over a transitions map may visit the keys
KeyOrders ==
    LET o == <<TICK, CONTINUE, LOOP, UNKNOWN>>
    IN {o, Reverse(o)}

\* s.transitions[eventKey] = to
AddTransition(s, eventKey, to) ==
    /\ fr.pc = "idle"
    /\ stateObjs' = [stateObjs EXCEPT ![s].transitions[eventKey] = to]
    /\ UNCHANGED <<sm, arrs, inst, fr, call, ret, log, eps, calls, epis, fires, lisVia,
                   lastSet, states, made, parked, gor, alone, dot>>

\* a call of m.Dot(currentState); the ranges over the maps visit them in some order
DotCall(m, currentState) ==
    /\ fr.pc = "idle"
    /\ Exists(m)
    /\ \E stateOrder \in StateOrders, keyOrder \in KeyOrders :
          dot' = Dot(m, currentState, stateOrder, keyOrder)
    /\ UNCHANGED <<stateObjs, sm, arrs, inst, fr, call, ret, log, eps, calls, epis, fires,
                   lisVia, lastSet, states, made, parked, gor, alone>>

----------------------------------------------------------------------------
(* Spec: one instance of the createFSM machine, positioned at GREEN, whose *)
(* fallbacks are reconfigured and to which listeners are added between     *)
(* Fire calls.  The handlers of the fixture vary: the onExit of GREEN and  *)
(* the onEnter of YELLOW may call Context.Fire, YELLOW may have no         *)
(* handlers, and BOUNCE may lack its CONTINUE transition.                  *)

FixtureVariant(exitFire, enterFire, bare, cont) ==
    [s \in StateIds |->
        LET f == FixtureStates[s]
            g == IF s = "green" /\ exitFire
                 THEN [f EXCEPT !.onExit = TrackFire(TICK)] ELSE f
            y == IF s = "yellow" /\ bare
                 THEN [g EXCEPT !.onExit = NoHandler, !.onEnter = NoHandler,
                                !.onEvent = NoHandler]
                 ELSE IF s = "yellow" /\ enterFire
                      THEN [g EXCEPT !.onEnter = TrackFire(LOOP)] ELSE g
        IN IF s = "bounce" /\ ~cont
           THEN [y EXCEPT !.transitions[CONTINUE] = Nil] ELSE y]

\* the variants drawn: (GREEN.onExit fires, YELLOW.onEnter fires, YELLOW without
\* handlers, BOUNCE has its CONTINUE transition)
Variants ==
    {<<FALSE, FALSE, FALSE, TRUE>>, <<TRUE, FALSE, FALSE, TRUE>>,
     <<FALSE, TRUE, FALSE, TRUE>>, <<TRUE, FALSE, TRUE, TRUE>>,
     <<FALSE, FALSE, FALSE, FALSE>>}

InitCommon ==
    /\ made = NoMade
    /\ dot = NoDot
    /\ parked = NoGoroutine
    /\ gor = 1
    /\ states = FixtureNames
    /\ arrs = <<FixtureOrdered>>
    /\ fr = IdleFrame
    /\ call = NoCall
    /\ ret = NoRet
    /\ log = <<>>
    /\ eps = <<>>
    /\ calls = ZeroCounts
    /\ epis = ZeroCounts
    /\ fires = 0
    /\ lisVia = <<>>
    /\ sm = [m \in Machines |-> FixtureMachine]

Init ==
    /\ InitCommon
    /\ \E v \in Variants : stateObjs = FixtureVariant(v[1], v[2], v[3], v[4])
    /\ inst = [i \in Instances |->
                 IF i = 1 THEN [live |-> TRUE, currentState |-> "green"] ELSE NoInstance]
    /\ alone = [i \in Instances |-> IF i = 1 THEN StandsAt("green") ELSE StandsAt(Nil)]
    /\ lastSet = FixtureLastSet

Next ==
    \/ \E key \in Keys, options \in FireOptions : FireCall(1, key, options)
    \/ FireSteps
    \/ AddOnTransition(1)
    \/ \E s \in FallbackScope, to \in StateFallbackTargets : StateSetFallbackTransition(s, to)
    \/ \E s \in FallbackScope, to \in StateFallbackTargets :
          StateSetFallbackHandler(s, FallbackReturning(to))
    \/ \E to \in MachineFallbackTargets : SetFallbackState(1, to)
    \/ \E to \in MachineFallbackTargets : SetFallbackHandler(1, FallbackReturning(to))

Spec == Init /\ [][Next]_vars

----------------------------------------------------------------------------
(* SpecLive: the instance of Spec, fired at while listeners are added and  *)
(* the fallback of the machine is set and cleared, with the steps of a     *)
(* Fire call taken whenever one is possible: Fire runs on the goroutine of *)
(* its caller, which goes on until the call returns.                       *)

NextLive ==
    \/ \E key \in Keys, options \in FireOptions : FireCall(1, key, options)
    \/ FireSteps
    \/ AddOnTransition(1)
    \/ \E to \in MachineFallbackTargets : SetFallbackState(1, to)

SpecLive == Init /\ [][NextLive]_vars /\ WF_vars(FireSteps)

----------------------------------------------------------------------------
(* SpecInst: the definition built by createFSM, from which instances are   *)
(* derived with FromState while listeners are added through the definition *)
(* and through the instances.                                              *)

\* the states instances are positioned at
StartStates == {"green", "yellow"}

\* the keys fired at the instances
InstKeys == {TICK, UNKNOWN}

InitInst ==
    /\ InitCommon
    /\ stateObjs = FixtureStates
    /\ inst = [i \in Instances |-> NoInstance]
    /\ alone = [i \in Instances |-> StandsAt(Nil)]
    /\ lastSet = FixtureLastSet

NextInst ==
    \/ \E i \in Instances, s \in StartStates : FromState(i, s)
    \/ \E m \in Machines : AddOnTransition(m)
    \/ \E i \in Instances, key \in InstKeys, options \in FireOptions : FireCall(i, key, options)
    \/ FireSteps

SpecInst == InitInst /\ [][NextInst]_vars

----------------------------------------------------------------------------
(* SpecConc: two goroutines, each firing at its own instance of the        *)
(* definition built by createFSM.  Listeners are added to the definition   *)
(* before the first instance is derived, after which the definition is no  *)
(* longer changed.  The scheduler may switch goroutines between any two    *)
(* steps of the Fire calls.                                                *)

\* the scheduler parks the running goroutine and resumes the other one
Switch ==
    /\ parked' = [fr |-> fr, call |-> call, ret |-> ret, log |-> log, eps |-> eps]
    /\ fr' = parked.fr
    /\ call' = parked.call
    /\ ret' = parked.ret
    /\ log' = parked.log
    /\ eps' = parked.eps
    /\ gor' = 3 - gor
    /\ UNCHANGED <<stateObjs, sm, arrs, inst, calls, epis, fires, lisVia,
                   lastSet, states, made, alone, dot>>

InitConc == InitInst

NextConc ==
    \/ ~inst[1].live /\ AddOnTransition(0)
    \/ \E i \in Instances, s \in StartStates : FromState(i, s)
    \/ \E key \in InstKeys, options \in FireOptions : FireCall(gor, key, options)
    \/ FireSteps
    \/ inst[2].live /\ Switch

SpecConc == InitConc /\ [][NextConc]_vars

----------------------------------------------------------------------------
(* SpecNames: the definition built by createFSM, to which a state is added *)
(* under a new or an already registered name, to which listeners are added *)
(* before the first instance is derived, and from which instances are      *)
(* derived by state and by name and fired at.                              *)

\* the names a further AddState registers
AddedNames == {"GREEN", "PURPLE"}
\* the names instances are looked up by
LookupNames == {"GREEN", "YELLOW", "PURPLE"}

InitNames == InitInst

NextNames ==
    \/ \E m \in Machines, name \in AddedNames : AddState(m, name)
    \/ ~inst[1].live /\ AddOnTransition(0)
    \/ \E i \in Instances, s \in StartStates : FromState(i, s)
    \/ \E i \in Instances, name \in LookupNames : FromStateName(i, name)
    \/ \E i \in Instances, key \in InstKeys : FireCall(i, key, <<>>)
    \/ FireSteps

SpecNames == InitNames /\ [][NextNames]_vars

----------------------------------------------------------------------------
(* SpecData: one instance of the createFSM machine, positioned at GREEN or *)
(* YELLOW and fired at with and without a payload; the onEvent of BOUNCE   *)
(* may override the payload of the CONTINUE it requests, the onEvent of    *)
(* YELLOW may call Context.Fire twice, and the onEnter of YELLOW may       *)
(* request LOOP, with or without an onEvent registered for YELLOW.         *)

DataVariants ==
    {FixtureStates,
     [FixtureStates EXCEPT !["bounce"].onEvent = TrackFireWith(CONTINUE, OverrideData)],
     [FixtureStates EXCEPT !["yellow"].onEnter = TrackFire(LOOP)],
     [FixtureStates EXCEPT !["yellow"].onEnter = TrackFire(LOOP),
                           !["yellow"].onEvent = NoHandler],
     [FixtureStates EXCEPT !["yellow"].onEvent =
                              TrackFireTwice(TICK, OverrideData, LOOP)]}

InitData ==
    /\ InitCommon
    /\ stateObjs \in DataVariants
    /\ \E s \in StartStates :
          /\ inst = [i \in Instances |->
                       IF i = 1 THEN [live |-> TRUE, currentState |-> s] ELSE NoInstance]
          /\ alone = [i \in Instances |-> IF i = 1 THEN StandsAt(s) ELSE StandsAt(Nil)]
    /\ lastSet = FixtureLastSet

NextData ==
    \/ \E key \in Keys, options \in FireOptions : FireCall(1, key, options)
    \/ FireSteps
    \/ AddOnTransition(1)

SpecData == InitData /\ [][NextData]_vars

----------------------------------------------------------------------------
(* SpecCallbacks: one instance of the createFSM machine, positioned at     *)
(* YELLOW, with a callback that does more than record its call: either the *)
(* onEnter of EXIT has captured the instance and calls its Fire(TICK), or  *)
(* the work the onExit of YELLOW does fails.                               *)

CallbackVariants ==
    {[FixtureStates EXCEPT !["exit"].onEnter = TrackRefire(TICK)],
     [FixtureStates EXCEPT !["yellow"].onExit = TrackFailing]}

InitCallbacks ==
    /\ InitCommon
    /\ stateObjs \in CallbackVariants
    /\ inst = [i \in Instances |->
                 IF i = 1 THEN [live |-> TRUE, currentState |-> "yellow"] ELSE NoInstance]
    /\ alone = [i \in Instances |-> IF i = 1 THEN StandsAt("yellow") ELSE StandsAt(Nil)]
    /\ lastSet = FixtureLastSet

NextCallbacks ==
    \/ \E key \in InstKeys, options \in FireOptions : FireCall(1, key, options)
    \/ FireSteps
    \/ AddOnTransition(1)

SpecCallbacks == InitCallbacks /\ [][NextCallbacks]_vars

----------------------------------------------------------------------------
(* SpecLocal: the definition of createFSM and up to two instances made of  *)
(* it at GREEN or YELLOW; the machine fallback is set, to a state or to a  *)
(* handler, on the definition and on the instances, before and after the   *)
(* instances are made, and the instances are fired at.                     *)

\* the states SetFallbackState is called with on the definition and on the instances
LocalFallbackTargets == {"red"}

InitLocal == InitInst

NextLocal ==
    \/ \E i \in Instances, s \in StartStates : FromState(i, s)
    \/ ~inst[1].live /\ AddOnTransition(0)
    \/ \E m \in Machines, to \in LocalFallbackTargets : SetFallbackState(m, to)
    \/ \E m \in Machines : SetFallbackHandler(m, FallbackReturning("exit"))
    \/ \E i \in Instances, key \in InstKeys : FireCall(i, key, <<>>)
    \/ FireSteps

SpecLocal == InitLocal /\ [][NextLocal]_vars

----------------------------------------------------------------------------
(* SpecAlias: the definition of createFSM has had AddOnTransition called   *)
(* on it some number of times; instances are made of it at GREEN or        *)
(* YELLOW, further listeners are added through the definition and through  *)
(* the instances, and the instances are fired at.                          *)

\* the capacity of a slice that started empty, after n appends of one element
RECURSIVE CapAfter(_)
CapAfter(n) ==
    IF n = 0 THEN 0
    ELSE IF n - 1 < CapAfter(n - 1) THEN CapAfter(n - 1) ELSE GrowCap(CapAfter(n - 1))

\* the backing array of onTransitionListeners after n appends to the definition; the
\* listener closures registered beforehand are numbered -1, -2, ..., those
\* registered later 1, 2, ...
ListenersBefore(n) == [k \in 1..CapAfter(n) |-> IF k <= n THEN 0 - k ELSE 0]

InitAlias ==
    /\ made = NoMade
    /\ dot = NoDot
    /\ parked = NoGoroutine
    /\ gor = 1
    /\ states = FixtureNames
    /\ fr = IdleFrame
    /\ call = NoCall
    /\ ret = NoRet
    /\ log = <<>>
    /\ eps = <<>>
    /\ calls = ZeroCounts
    /\ epis = ZeroCounts
    /\ fires = 0
    /\ lisVia = <<>>
    /\ stateObjs = FixtureStates
    /\ inst = [i \in Instances |-> NoInstance]
    /\ alone = [i \in Instances |-> StandsAt(Nil)]
    /\ lastSet = FixtureLastSet
    /\ \E n \in 0..MaxBefore :
          /\ arrs = IF n = 0 THEN <<FixtureOrdered>>
                    ELSE <<FixtureOrdered, ListenersBefore(n)>>
          /\ sm = [m \in Machines |->
                     [FixtureMachine EXCEPT !.onTransitionListeners =
                         IF n = 0 THEN EmptySlice
                         ELSE [arr |-> 2, len |-> n, cap |-> CapAfter(n)]]]

NextAlias ==
    \/ \E i \in Instances, s \in StartStates : FromState(i, s)
    \/ \E m \in Machines : AddOnTransition(m)
    \/ \E i \in Instances, key \in InstKeys : FireCall(i, key, <<>>)
    \/ FireSteps

SpecAlias == InitAlias /\ [][NextAlias]_vars

----------------------------------------------------------------------------
(* SpecDot: the createFSM machine, its AddState calls made in the order of *)
(* the fixture or in another order, is changed further (a state added      *)
(* under a new or a used name, a transition of the added state to itself,  *)
(* fallbacks of YELLOW, of EXIT and of the machine) and then rendered with *)
(* Dot, once or several times, for any of its states as current state.     *)

\* the orders in which the five AddState calls of createFSM may be made
ConstructionOrders ==
    {<<"green", "yellow", "bounce", "red", "exit">>,
     <<"bounce", "exit", "green", "red", "yellow">>}

\* orderedStates after five appends: length 5 in a backing array of 8
OrderedAs(o) == [k \in 1..8 |-> IF k <= 5 THEN o[k] ELSE Nil]

\* the static fallbacks set on states before rendering
DotStateFallbacks == {<<"yellow", "exit">>, <<"exit", "green">>}
\* the static fallbacks set on the machine before rendering
DotMachineFallbacks == {"exit", "red"}

\* the states that exist: the State structs AddState has made
Allocated == {x \in StateIds : stateObjs[x].name # Nil}

InitDot ==
    /\ made = NoMade
    /\ dot = NoDot
    /\ parked = NoGoroutine
    /\ gor = 1
    /\ states = FixtureNames
    /\ \E o \in ConstructionOrders : arrs = <<OrderedAs(o)>>
    /\ fr = IdleFrame
    /\ call = NoCall
    /\ ret = NoRet
    /\ log = <<>>
    /\ eps = <<>>
    /\ calls = ZeroCounts
    /\ epis = ZeroCounts
    /\ fires = 0
    /\ lisVia = <<>>
    /\ sm = [m \in Machines |-> FixtureMachine]
    /\ stateObjs = FixtureStates
    /\ inst = [i \in Instances |-> NoInstance]
    /\ alone = [i \in Instances |-> StandsAt(Nil)]
    /\ lastSet = FixtureLastSet

NextDot ==
    \/ ~dot.called /\ \E name \in AddedNames : AddState(0, name)
    \/ ~dot.called /\ "added" \in Allocated /\ AddTransition("added", LOOP, "added")
    \/ ~dot.called /\ \E f \in DotStateFallbacks : StateSetFallbackTransition(f[1], f[2])
    \/ ~dot.called /\ StateSetFallbackHandler("yellow", FallbackReturning("exit"))
    \/ ~dot.called /\ \E to \in DotMachineFallbacks : SetFallbackState(0, to)
    \/ ~dot.called /\ SetFallbackHandler(0, FallbackReturning("red"))
    \/ \E currentState \in Allocated : DotCall(0, currentState)

SpecDot == InitDot /\ [][NextDot]_vars

----------------------------------------------------------------------------
(* What the claims speak of. *)

\* the listeners registered with the StateMachine struct of the firing instance
Registered == SliceElems(sm[fr.inst].onTransitionListeners)

\* the call is between two episodes: every resolved episode has run all its blocks
Between == fr.pc \in {"return", "fire", "error"}

\* the handler and listener invocations of episode n, in the order they happened
EpisodeLog(n) ==
    LET sel(e) == e.ep = n /\ e.kind \in {"exit", "enter", "event", "listener"}
        l == SelectSeq(log, sel)
    IN [j \in 1..Len(l) |-> [kind |-> l[j].kind, state |-> l[j].state, lis |-> l[j].lis]]

Called(kind, n) == {j \in DOMAIN log : log[j].kind = kind /\ log[j].ep = n}

\* the onEvent handler of state s requests a follow-up event
Requests(s) == stateObjs[s].onEvent.set /\ stateObjs[s].onEvent.fires # <<>>
Requested(s) == stateObjs[s].onEvent.fires[Len(stateObjs[s].onEvent.fires)].key

\* the five stages of resolution for the episode being resolved, as the targets they yield
Stages ==
    LET s == stateObjs[fr.state]
        m == sm[fr.inst]
    IN <<s.transitions[fr.ctx.eventKey],
         s.fallbackTransition,
         IF s.fallbackHandler.set THEN s.fallbackHandler.ret ELSE Nil,
         m.fallbackState,
         IF m.fallbackHandler.set THEN m.fallbackHandler.ret ELSE Nil>>

\* the first stage that yields a state, 0 when none does
FirstHit ==
    IF \E n \in 1..5 : Stages[n] # Nil
    THEN CHOOSE n \in 1..5 : Stages[n] # Nil /\ \A k \in 1..(n - 1) : Stages[k] = Nil
    ELSE 0

\* fire has just resolved (or failed to resolve) the target of an episode
Resolved == fr.pc \in {"exit", "error"}
ResolvedEpisode == IF fr.pc = "error" THEN Len(eps) + 1 ELSE Len(eps)

\* C1: fire takes the target from the first of the five stages (keyed transition,
\* state fallback transition, state fallback handler, machine fallback state, machine
\* fallback handler) that yields a state and fails when none does; a fallback handler
\* is called exactly when no earlier stage yielded a state. With a state fallback X
\* and a machine fallback Y an unmatched key resolves to X, and to Y once the state
\* fallback is cleared.
C1_ResolutionOrder ==
    Resolved =>
        LET s == stateObjs[fr.state]
            m == sm[fr.inst]
            n == ResolvedEpisode
        IN /\ (fr.pc = "error") <=> (FirstHit = 0)
           /\ fr.pc = "exit" => fr.next = Stages[FirstHit]
           /\ Cardinality(Called("stateFallback", n)) =
                 IF s.fallbackHandler.set /\ FirstHit \notin {1, 2} THEN 1 ELSE 0
           /\ Cardinality(Called("machineFallback", n)) =
                 IF m.fallbackHandler.set /\ FirstHit \notin {1, 2, 3, 4} THEN 1 ELSE 0
           /\ (Stages[1] = Nil /\ s.fallbackTransition # Nil)
                 => (fr.pc = "exit" /\ fr.next = s.fallbackTransition)
           /\ (Stages[1] = Nil /\ s.fallbackTransition = Nil /\ ~s.fallbackHandler.set
                 /\ m.fallbackState # Nil)
                 => (fr.pc = "exit" /\ fr.next = m.fallbackState)

\* an unmatched key at YELLOW, whose state fallback has been cleared, resolved to the
\* machine fallback RED
C1_Witness ==
    /\ fr.pc = "exit"
    /\ fr.state = "yellow"
    /\ fr.ctx.eventKey = UNKNOWN
    /\ stateObjs["yellow"].fallbackTransition = Nil
    /\ ~stateObjs["yellow"].fallbackHandler.set
    /\ sm[fr.inst].fallbackState = "red"
    /\ fr.next = "red"

\* what episode n calls when it moves from a state to a different one
ExpectedChange(n) ==
    LET e == eps[n]
        x == IF stateObjs[e.from].onExit.set
             THEN <<[kind |-> "exit", state |-> e.from, lis |-> 0]>> ELSE <<>>
        y == IF stateObjs[e.to].onEnter.set
             THEN <<[kind |-> "enter", state |-> e.to, lis |-> 0]>> ELSE <<>>
        z == IF stateObjs[e.to].onEvent.set
             THEN <<[kind |-> "event", state |-> e.to, lis |-> 0]>> ELSE <<>>
        w == [j \in 1..Len(Registered) |->
                [kind |-> "listener", state |-> Nil, lis |-> Registered[j]]]
    IN x \o y \o z \o w

\* C2: an episode that moves from A to a different state B calls A.onExit,
\* B.onEnter, B.onEvent and then the transition listeners, in this order, each once,
\* skipping the handlers that are not registered.
C2_HandlerOrder ==
    Between =>
        \A n \in 1..Len(eps) :
            eps[n].from # eps[n].to => EpisodeLog(n) = ExpectedChange(n)

\* GREEN --TICK--> YELLOW has run all four kinds of calls
C2_Witness ==
    /\ fr.pc = "return"
    /\ Len(eps) = 1
    /\ eps[1].from = "green" /\ eps[1].to = "yellow"
    /\ Len(EpisodeLog(1)) = 4

\* what episode n calls when its target is the state it started in
ExpectedSelf(n) ==
    LET e == eps[n]
        z == IF stateObjs[e.to].onEvent.set
             THEN <<[kind |-> "event", state |-> e.to, lis |-> 0]>> ELSE <<>>
        w == [j \in 1..Len(Registered) |->
                [kind |-> "listener", state |-> Nil, lis |-> Registered[j]]]
    IN z \o w

\* the counts of the tracker agree with the counts of the episodes
CountsAgree ==
    \A s \in StateIds :
        /\ calls[s].enter = IF stateObjs[s].onEnter.set THEN epis[s].enter ELSE 0
        /\ calls[s].exit = IF stateObjs[s].onExit.set THEN epis[s].exit ELSE 0
        /\ calls[s].event = IF stateObjs[s].onEvent.set THEN epis[s].event ELSE 0

\* C3: an episode whose target is the State it started in calls neither onExit nor
\* onEnter, only onEvent (when registered) and the listeners, and leaves the current
\* state as it was; over any sequence of Fire calls a state's onEnter count is the
\* number of episodes that entered it from a different state, its onExit count the
\* number of episodes that left it for a different state, and its onEvent count the
\* number of episodes that targeted it.
C3_SelfTransition ==
    /\ Between =>
          \A n \in 1..Len(eps) :
              eps[n].from = eps[n].to => EpisodeLog(n) = ExpectedSelf(n)
    /\ (fr.pc = "idle" /\ ret.err = Nil /\ Len(eps) = 1 /\ eps[1].from = eps[1].to)
          => inst[call.inst].currentState = call.before
    /\ (Between \/ fr.pc = "idle") => CountsAgree

\* RED --LOOP--> RED fired a second time on an instance that had entered RED
C3_Witness ==
    /\ fr.pc = "idle"
    /\ ret.err = Nil
    /\ Len(eps) = 1
    /\ eps[1].from = "red" /\ eps[1].to = "red"
    /\ epis["red"].event >= 2
    /\ calls["red"].event >= 2

\* no stage of the resolution yields a target for the key fired at the state
Unresolvable(state, machine, key) ==
    LET s == stateObjs[state]
    IN /\ s.transitions[key] = Nil
       /\ s.fallbackTransition = Nil
       /\ ~s.fallbackHandler.set \/ s.fallbackHandler.ret = Nil
       /\ machine.fallbackState = Nil
       /\ ~machine.fallbackHandler.set \/ machine.fallbackHandler.ret = Nil

\* C4: when the event fired matches no keyed transition of the current state and no
\* fallback yields a target, Fire returns ErrTransitionNotFound with the name of the
\* current state and the key, the current state is unchanged and no onExit, onEnter,
\* onEvent or listener is called.
C4_TransitionNotFound ==
    /\ (Resolved /\ ResolvedEpisode = 1)
          => (Unresolvable(call.before, sm[call.inst], call.key) <=> fr.pc = "error")
    /\ (fr.pc \in {"error", "idle"} /\ ret.err = "ErrTransitionNotFound" /\ eps = <<>>)
          => /\ ret.state = stateObjs[call.before].name
             /\ ret.key = call.key
             /\ inst[call.inst].currentState = call.before
             /\ \A j \in DOMAIN log :
                   log[j].kind \notin {"exit", "enter", "event", "listener"}

\* Fire(LOOP) at GREEN, with a listener registered, has returned the error
C4_Witness ==
    /\ fr.pc = "idle"
    /\ ret.err = "ErrTransitionNotFound"
    /\ eps = <<>>
    /\ call.before = "green"
    /\ call.key = LOOP
    /\ sm[call.inst].onTransitionListeners.len > 0

\* C5: when the onEvent of an episode's target requests a follow-up event, the same
\* Fire call runs a further episode from that target with the requested key; when
\* Fire returns without error the current state is the target of the last episode,
\* whose onEvent requested nothing, and each listener has been notified once per
\* episode, in the order of the chain.
C5_Chaining ==
    /\ \A n \in 1..(Len(eps) - 1) :
          /\ eps[n + 1].from = eps[n].to
          /\ Requests(eps[n].to) => eps[n + 1].key = Requested(eps[n].to)
    /\ (fr.pc = "idle" /\ call.inst # 0 /\ ret.err = Nil)
          => /\ Len(eps) >= 1
             /\ inst[call.inst].currentState = eps[Len(eps)].to
             /\ ~Requests(eps[Len(eps)].to)
    /\ Between =>
          \A k \in 1..Len(Registered) :
              LET sel(e) == e.kind = "listener" /\ e.lis = Registered[k]
                  seen == SelectSeq(log, sel)
              IN /\ Len(seen) = Len(eps)
                 /\ \A j \in 1..Len(seen) :
                    /\ seen[j].ep = j
                    /\ seen[j].key = eps[j].key
                    /\ seen[j].from = eps[j].from
                    /\ seen[j].to = eps[j].to

\* Fire(TICK) at YELLOW returned at RED after YELLOW --TICK--> BOUNCE and
\* BOUNCE --CONTINUE--> RED, with a listener notified of both
C5_Witness ==
    /\ fr.pc = "idle"
    /\ ret.err = Nil
    /\ call.before = "yellow"
    /\ Len(eps) = 2
    /\ eps[1].to = "bounce" /\ eps[2].key = CONTINUE /\ eps[2].to = "red"
    /\ inst[call.inst].currentState = "red"
    /\ Len(SelectSeq(log, LAMBDA e : e.kind = "listener" /\ e.lis = 1)) = 2


\* C6: when the transition listeners of an episode are called, the current state of
\* the instance is already the target of that episode.
C6_CommitBeforeNotify ==
    (fr.pc = "notify" /\ fr.li < Len(Registered))
        => inst[fr.inst].currentState = fr.next

\* C7: when the follow-up event requested by the onEvent of an episode's target cannot
\* be resolved, Fire returns the ErrTransitionNotFound naming the intermediate state
\* and the follow-up key, and the current state is the state reached by the
\* preceding, completed episode.
C7_ChainedFailure ==
    (/\ fr.pc = "idle"
     /\ ret.err = "ErrTransitionNotFound"
     /\ Len(eps) >= 1
     /\ Requests(eps[Len(eps)].to))
        => /\ ret.state = stateObjs[eps[Len(eps)].to].name
           /\ ret.key = Requested(eps[Len(eps)].to)
           /\ inst[call.inst].currentState = eps[Len(eps)].to

\* the notifications of the listeners during the call, as (listener, key, from, to)
Notifications ==
    LET sel(e) == e.kind = "listener"
        l == SelectSeq(log, sel)
    IN [j \in 1..Len(l) |->
          [lis |-> l[j].lis, key |-> l[j].key, from |-> l[j].from, to |-> l[j].to]]

\* one notification per resolved episode and registered listener, episode by episode
\* and, within an episode, in the order of registration
ExpectedNotifications ==
    LET L == Len(Registered)
    IN [j \in 1..(Len(eps) * L) |->
          LET n == ((j - 1) \div L) + 1
              k == ((j - 1) % L) + 1
          IN [lis |-> Registered[k], key |-> eps[n].key,
              from |-> eps[n].from, to |-> eps[n].to]]

\* C8: every completed episode, whether it changes the state, is a self transition,
\* is resolved by a fallback or is chained, notifies every registered listener
\* exactly once, in the order of registration, with the key, the source and the
\* target of that episode.
C8_ListenersNotified ==
    Between => Notifications = ExpectedNotifications

\* two listeners have been notified of a chained episode that followed another episode
C8_Witness ==
    /\ fr.pc = "return"
    /\ Len(Registered) = 2
    /\ Len(eps) = 2
    /\ Len(Notifications) = 4

\* C9: a listener added through one instance is notified of the transitions completed
\* on every sibling instance derived from the same definition.
C9_ListenerShared ==
    fr.pc = "return" =>
        \A l \in 1..Len(lisVia) :
            (lisVia[l] \in Instances /\ lisVia[l] # fr.inst)
                => \E j \in DOMAIN log :
                      log[j].kind = "listener" /\ log[j].lis = l /\ log[j].ep = Len(eps)

\* C10: a follow-up requested from an onExit or onEnter handler never produces a
\* chained episode: every chained episode was requested by the onEvent of the target
\* of the episode before it.
C10_OnlyOnEventChains ==
    \A n \in 1..(Len(eps) - 1) : Requests(eps[n].to)

\* an episode is running its blocks
InFlight == fr.pc \in {"exit", "enter", "event", "notify", "return"}

\* C11: at most one episode is in flight per instance: while a Fire call on an
\* instance is running a callback, a Fire call the callback makes on that instance
\* gets no episode of its own executed; only the chaining mechanism starts the next
\* episode.
C11_OneInFlight ==
    fr.stack # <<>> => ~InFlight

\* the onExit of the state episode n leaves is a handler whose work fails
ExitFails(n) ==
    /\ eps[n].from # eps[n].to
    /\ stateObjs[eps[n].from].onExit.set
    /\ stateObjs[eps[n].from].onExit.fails

\* C12: when the onExit callback of the current state fails during an episode, the
\* episode is aborted: neither the onEnter nor the onEvent of the target runs, Fire
\* returns the failure to the caller and the current state is not advanced.
C12_ExitFailureAborts ==
    \A n \in 1..Len(eps) :
        ExitFails(n) =>
            /\ Called("enter", n) = {}
            /\ Called("event", n) = {}
            /\ fr.pc = "idle" => /\ ret.err # Nil
                                 /\ inst[call.inst].currentState = call.before

\* the fallbacks of a scope are what the setter called last on it installed
LastWins(static, dynamic, last) ==
    /\ ~(static # Nil /\ dynamic.set)
    /\ last.kind = "static" => (static = last.arg /\ ~dynamic.set)
    /\ last.kind = "dynamic" => (dynamic = last.arg /\ static = Nil)
    /\ last.kind = "none" => (static = Nil /\ ~dynamic.set)

\* C13: for each State and for the StateMachine, after any sequence of calls of the
\* static fallback setter and the fallback handler setter at most one of the two
\* fallbacks is set, and it is the one the most recent call installed.
C13_FallbackExclusive ==
    /\ \A s \in StateIds :
          LastWins(stateObjs[s].fallbackTransition, stateObjs[s].fallbackHandler,
                   lastSet.state[s])
    /\ \A m \in Machines :
          Exists(m) => LastWins(sm[m].fallbackState, sm[m].fallbackHandler,
                                lastSet.machine[m])

\* YELLOW, built with a fallback transition, has been given a fallback handler, and
\* the machine a fallback state after a fallback handler had been set
C13_Witness ==
    /\ lastSet.state["yellow"].kind = "dynamic"
    /\ stateObjs["yellow"].fallbackHandler.set
    /\ stateObjs["yellow"].fallbackTransition = Nil
    /\ lastSet.machine[1] = [kind |-> "static", arg |-> "red"]
    /\ sm[1].fallbackState = "red"
    /\ ~sm[1].fallbackHandler.set

\* C14: FromState and FromStateName call no onEnter, onExit or onEvent and no
\* listener; the new instance stands at the state given, or at the state registered
\* under the name given; the definition and the current state of every other
\* instance are left as they were.
C14_Teleport ==
    [][\A i \in Instances :
          (~inst[i].live /\ inst'[i].live) =>
              /\ made'.inst = i
              /\ inst'[i].currentState =
                    IF made'.name = Nil THEN made'.state ELSE states[made'.name]
              /\ log' = log
              /\ calls' = calls
              /\ stateObjs' = stateObjs
              /\ states' = states
              /\ sm'[0] = sm[0]
              /\ arrs' = arrs
              /\ \A j \in Instances \ {i} : inst'[j] = inst[j]]_vars

\* a second instance has been positioned at GREEN after the first one had moved from
\* GREEN to YELLOW: the onEnter of GREEN has not run and the first stays at YELLOW
C14_Witness ==
    /\ made.inst = 2
    /\ inst[2].currentState = "green"
    /\ inst[1].currentState = "yellow"
    /\ calls["yellow"].enter = 1
    /\ calls["green"].enter = 0

\* C15: FromStateName with a name no AddState has registered returns no instance and
\* the ErrStateNotFound carrying that name; with a registered name it returns, without
\* error, an instance positioned at the state now registered under the name.
C15_FromStateName ==
    [][(made' # made /\ made'.name # Nil) =>
          IF states[made'.name] = Nil
          THEN /\ made' = ErrStateNotFound(made'.name)
               /\ inst' = inst
          ELSE /\ made'.err = Nil
               /\ made'.inst \in Instances
               /\ ~inst[made'.inst].live
               /\ inst'[made'.inst] =
                     [live |-> TRUE, currentState |-> states[made'.name]]]_vars

\* the lookup of PURPLE, which no AddState has registered, has failed on a
\* definition one instance has been derived from
C15_Witness ==
    /\ made = ErrStateNotFound("PURPLE")
    /\ states["PURPLE"] = Nil
    /\ inst[1].live
    /\ ~inst[2].live

\* C16: within an episode the onExit, onEnter and onEvent handlers and the
\* listeners all see the key and the payload of the episode, from equal to the state
\* the episode started in and to equal to the resolved target; for the first episode
\* these are the key and the WithData payload of the Fire call and the current state.
C16_SameContext ==
    /\ \A j \in DOMAIN log :
          log[j].kind \in {"exit", "enter", "event", "listener"} =>
              /\ log[j].ep \in 1..Len(eps)
              /\ log[j].key = eps[log[j].ep].key
              /\ log[j].data = eps[log[j].ep].data
              /\ log[j].from = eps[log[j].ep].from
              /\ log[j].to = eps[log[j].ep].to
    /\ Len(eps) >= 1 =>
          /\ eps[1].key = call.key
          /\ eps[1].data = call.data
          /\ eps[1].from = call.before

\* Fire(TICK, WithData(d1)) at GREEN has called the onExit of GREEN, the onEnter and
\* the onEvent of YELLOW and a listener
C16_Witness ==
    /\ fr.pc = "return"
    /\ call.data = "d1"
    /\ call.before = "green"
    /\ Len(EpisodeLog(1)) = 4
    /\ Len(Registered) = 1

\* the options of the follow-up the onEvent of state s requests
RequestedOptions(s) == stateObjs[s].onEvent.fires[Len(stateObjs[s].onEvent.fires)].opts

\* no handler of the machine passes an overriding option to Context.Fire
NoOverrides ==
    \A s \in StateIds :
        \A h \in {stateObjs[s].onExit, stateObjs[s].onEnter, stateObjs[s].onEvent} :
            \A k \in DOMAIN h.fires : h.fires[k].opts = <<>>

\* C17: a chained episode carries the payload of the episode that requested it,
\* unless the Context.Fire call passed an overriding option, whose payload it then
\* carries; through a chain without overrides every episode sees the payload of the
\* external Fire call.
C17_PayloadCarried ==
    /\ \A n \in 1..(Len(eps) - 1) :
          Requests(eps[n].to) =>
              eps[n + 1].data =
                  IF RequestedOptions(eps[n].to) = <<>> THEN eps[n].data
                  ELSE RequestedOptions(eps[n].to)[Len(RequestedOptions(eps[n].to))]
    /\ NoOverrides => \A n \in 1..Len(eps) : eps[n].data = call.data

\* Fire(TICK, WithData(d1)) at YELLOW: BOUNCE --CONTINUE--> RED, requested without an
\* override, carries d1
C17_Witness ==
    /\ Len(eps) = 2
    /\ Requests(eps[1].to)
    /\ RequestedOptions(eps[1].to) = <<>>
    /\ call.data = "d1"
    /\ eps[2].data = "d1"

\* the Fire call of the running goroutine, and of the parked one, has returned
RunningDone == fr.pc = "idle" /\ call.inst = gor
ParkedDone == parked.fr.pc = "idle" /\ parked.call.inst = 3 - gor

\* C18: two Fire calls with the same key and payload, made at the same state on two
\* instances of the same definition, resolve the same targets, call the same
\* handlers and listeners in the same order and return the same result.
C18_Deterministic ==
    (/\ RunningDone
     /\ ParkedDone
     /\ sm[1] = sm[2]
     /\ call.before = parked.call.before
     /\ call.key = parked.call.key
     /\ call.data = parked.call.data)
        => /\ eps = parked.eps
           /\ log = parked.log
           /\ ret = parked.ret
           /\ inst[1].currentState = inst[2].currentState

\* Fire(TICK) at YELLOW has returned on both instances after the same two episodes
\* and the same eight calls of handlers and listeners
C18_Witness ==
    /\ RunningDone
    /\ ParkedDone
    /\ call.before = "yellow" /\ parked.call.before = "yellow"
    /\ call.key = TICK /\ parked.call.key = TICK
    /\ call.data = parked.call.data
    /\ Len(eps) = 2
    /\ Len(log) = 8
    /\ log = parked.log

\* C19: however the steps of the Fire calls on two instances of a definition that
\* is no longer changed interleave, each instance is left in the state, and each
\* call returns the result, that the instance's own Fire calls alone produce; a Fire
\* call on one instance never changes the current state of the other.
C19_Isolated ==
    /\ fr.pc = "idle" =>
          /\ inst[gor].currentState = alone[gor].state
          /\ call.inst = gor => ret = alone[gor].ret
    /\ parked.fr.pc = "idle" =>
          /\ inst[3 - gor].currentState = alone[3 - gor].state
          /\ parked.call.inst = 3 - gor => parked.ret = alone[3 - gor].ret

\* a Fire call has returned, leaving its instance at RED, while the other goroutine
\* is parked between the handlers of an episode of the other instance
C19_Witness ==
    /\ RunningDone
    /\ ret = RetOk
    /\ inst[gor].currentState = "red"
    /\ parked.fr.pc = "enter"
    /\ parked.call.inst = 3 - gor
    /\ inst[3 - gor].currentState = parked.call.before

\* C20: a Fire call returns: on the createFSM machine and its variants, whose
\* follow-up requests cannot cycle, every call that has started reaches its return,
\* after the last episode, whose onEvent requests nothing, or after a resolution
\* that fails.
C20_FireReturns ==
    (fr.pc # "idle") ~> (fr.pc = "idle")

\* Fire(TICK) at YELLOW has returned after the chain YELLOW --> BOUNCE --> RED
C20_Witness ==
    /\ fr.pc = "idle"
    /\ ret = RetOk
    /\ call.before = "yellow"
    /\ Len(eps) = 2
    /\ ~Requests(eps[2].to)

\* the Context.Fire calls made during episode n by the handlers transition calls
\* before it asks for the next context: onExit, onEnter, onEvent
AllFires(n) ==
    LET e == eps[n]
        x == IF e.from # e.to /\ stateObjs[e.from].onExit.set
             THEN stateObjs[e.from].onExit.fires ELSE <<>>
        y == IF e.from # e.to /\ stateObjs[e.to].onEnter.set
             THEN stateObjs[e.to].onEnter.fires ELSE <<>>
        z == IF stateObjs[e.to].onEvent.set THEN stateObjs[e.to].onEvent.fires ELSE <<>>
    IN x \o y \o z

\* C28: a listener cannot influence the transition or the chain: the Context.Fire
\* call of a listener causes no follow-up episode (every follow-up was requested by
\* a handler of the episode before it), and the state Fire leaves the instance in and
\* the result it returns are those of the same call without listeners.
C28_ListenersObserve ==
    /\ \A n \in 1..(Len(eps) - 1) : AllFires(n) # <<>>
    /\ (fr.pc = "return" /\ AllFires(Len(eps)) = <<>>) => fr.nextCtx.isNil
    /\ (fr.pc = "idle" /\ call.inst # 0) =>
          /\ inst[call.inst].currentState = alone[call.inst].state
          /\ ret = alone[call.inst].ret

\* the second listener, which calls c.Fire(LOOP), has been notified of
\* GREEN --TICK--> YELLOW, and Fire has returned at YELLOW after this one episode
C28_Witness ==
    /\ fr.pc = "idle"
    /\ ret = RetOk
    /\ Len(eps) = 1
    /\ eps[1].to = "yellow"
    /\ inst[1].currentState = "yellow"
    /\ \E j \in DOMAIN log : log[j].kind = "listener" /\ log[j].lis = 2

\* C29: an episode chains at most one follow-up: it has one exactly when its target
\* has an onEvent and Context.Fire was called during the episode, and the follow-up
\* has the key and the options of the last Context.Fire call; an episode whose
\* target has no onEvent never chains.
C29_LastRequestWins ==
    /\ \A n \in 1..(Len(eps) - 1) :
          LET last == AllFires(n)[Len(AllFires(n))]
          IN /\ stateObjs[eps[n].to].onEvent.set
             /\ AllFires(n) # <<>>
             /\ eps[n + 1].from = eps[n].to
             /\ eps[n + 1].key = last.key
             /\ eps[n + 1].data =
                   IF last.opts = <<>> THEN eps[n].data ELSE last.opts[Len(last.opts)]
    /\ fr.pc = "return" =>
          (fr.nextCtx.isNil <=>
              (~stateObjs[fr.next].onEvent.set \/ AllFires(Len(eps)) = <<>>))

\* the onEvent of YELLOW has called Fire(TICK, WithData(d2)) and then Fire(LOOP): the
\* one follow-up is YELLOW --LOOP--> EXIT, with the payload of the episode before it
C29_Witness ==
    /\ fr.pc = "idle"
    /\ \E n \in 1..(Len(eps) - 1) :
          /\ Len(AllFires(n)) = 2
          /\ n + 1 = Len(eps)
          /\ eps[n + 1].key = LOOP
          /\ eps[n + 1].to = "exit"
          /\ eps[n + 1].data = eps[n].data
          /\ eps[n + 1].data # OverrideData

\* the state objects registered in the definition: the values of the states map
RegisteredStates == {states[n] : n \in Names} \ {Nil}

\* no name was re-added: every state object ever added is the one under its name
NoNameReAdded ==
    \A x \in StateIds : stateObjs[x].name # Nil => states[stateObjs[x].name] = x

\* every keyed transition target, fallback target and fallback-handler result of
\* the states and of the machines is a registered state
TargetsRegistered ==
    /\ \A x \in RegisteredStates :
          /\ \A k \in DOMAIN stateObjs[x].transitions :
                stateObjs[x].transitions[k] \in RegisteredStates \cup {Nil}
          /\ stateObjs[x].fallbackTransition \in RegisteredStates \cup {Nil}
          /\ stateObjs[x].fallbackHandler.ret \in RegisteredStates \cup {Nil}
    /\ \A m \in Machines :
          /\ sm[m].fallbackState \in RegisteredStates \cup {Nil}
          /\ sm[m].fallbackHandler.ret \in RegisteredStates \cup {Nil}

\* C30: closure: when every transition target, fallback target and fallback-handler
\* result is registered and no name was re-added, the current state of every
\* instance is, before, during and after every Fire call, successful or failed,
\* non-nil and the state registered under its own name; and a Fire call that
\* returned nil has not left the current state nil.
C30_Closure ==
    /\ (NoNameReAdded /\ TargetsRegistered) =>
          \A i \in Instances :
             inst[i].live =>
                /\ inst[i].currentState # Nil
                /\ states[stateObjs[inst[i].currentState].name] = inst[i].currentState
    /\ (fr.pc = "idle" /\ call.inst # 0 /\ ret = RetOk) =>
          inst[call.inst].currentState # Nil

\* PURPLE was added, no name re-added; the instance made at YELLOW was fired at
\* twice: TICK took it to RED, UNKNOWN failed there, and it stands at RED
C30_Witness ==
    /\ NoNameReAdded
    /\ TargetsRegistered
    /\ states["PURPLE"] # Nil
    /\ fr.pc = "idle"
    /\ fires = 2
    /\ inst[1].live
    /\ inst[1].currentState = "red"
    /\ ret = ErrTransitionNotFound("RED", UNKNOWN)

\* the text ExampleDot expects of createFSM with SetFallbackState(exit), rendered at GREEN
ExampleDotOutput ==
    <<100, 105, 103, 114, 97, 112, 104, 32, 102, 105, 110, 105, 116, 101, 95,
    115, 116, 97, 116, 101, 95, 109, 97, 99, 104, 105, 110, 101, 32, 123, 10,
    9, 114, 97, 110, 107, 100, 105, 114, 61, 76, 82, 59, 10, 9, 110, 111, 100,
    101, 32, 91, 115, 104, 97, 112, 101, 32, 61, 32, 99, 105, 114, 99, 108,
    101, 93, 59, 10, 9, 35, 32, 110, 111, 100, 101, 115, 10, 9, 71, 82, 69,
    69, 78, 32, 91, 115, 116, 121, 108, 101, 61, 102, 105, 108, 108, 101, 100,
    44, 32, 102, 105, 108, 108, 99, 111, 108, 111, 114, 61, 103, 111, 108,
    100, 93, 59, 10, 9, 89, 69, 76, 76, 79, 87, 59, 10, 9, 66, 79, 85, 78, 67,
    69, 59, 10, 9, 82, 69, 68, 59, 10, 9, 69, 88, 73, 84, 32, 91, 115, 116,
    121, 108, 101, 61, 102, 105, 108, 108, 101, 100, 44, 32, 115, 104, 97,
    112, 101, 61, 100, 111, 117, 98, 108, 101, 99, 105, 114, 99, 108, 101, 93,
    59, 10, 9, 35, 32, 116, 114, 97, 110, 115, 105, 116, 105, 111, 110, 115,
    10, 9, 66, 79, 85, 78, 67, 69, 32, 45, 62, 32, 69, 88, 73, 84, 32, 91,
    108, 97, 98, 101, 108, 61, 34, 109, 97, 99, 104, 105, 110, 101, 32, 102,
    97, 108, 108, 98, 97, 99, 107, 34, 44, 32, 115, 116, 121, 108, 101, 61,
    100, 97, 115, 104, 101, 100, 93, 59, 10, 9, 66, 79, 85, 78, 67, 69, 32,
    45, 62, 32, 82, 69, 68, 32, 91, 108, 97, 98, 101, 108, 32, 61, 32, 34, 67,
    79, 78, 84, 73, 78, 85, 69, 34, 93, 59, 10, 9, 69, 88, 73, 84, 32, 45, 62,
    32, 69, 88, 73, 84, 32, 91, 108, 97, 98, 101, 108, 61, 34, 109, 97, 99,
    104, 105, 110, 101, 32, 102, 97, 108, 108, 98, 97, 99, 107, 34, 44, 32,
    115, 116, 121, 108, 101, 61, 100, 97, 115, 104, 101, 100, 93, 59, 10, 9,
    71, 82, 69, 69, 78, 32, 45, 62, 32, 69, 88, 73, 84, 32, 91, 108, 97, 98,
    101, 108, 61, 34, 109, 97, 99, 104, 105, 110, 101, 32, 102, 97, 108, 108,
    98, 97, 99, 107, 34, 44, 32, 115, 116, 121, 108, 101, 61, 100, 97, 115,
    104, 101, 100, 93, 59, 10, 9, 71, 82, 69, 69, 78, 32, 45, 62, 32, 89, 69,
    76, 76, 79, 87, 32, 91, 108, 97, 98, 101, 108, 32, 61, 32, 34, 84, 73, 67,
    75, 34, 93, 59, 10, 9, 82, 69, 68, 32, 45, 62, 32, 69, 88, 73, 84, 32, 91,
    108, 97, 98, 101, 108, 61, 34, 109, 97, 99, 104, 105, 110, 101, 32, 102,
    97, 108, 108, 98, 97, 99, 107, 34, 44, 32, 115, 116, 121, 108, 101, 61,
    100, 97, 115, 104, 101, 100, 93, 59, 10, 9, 82, 69, 68, 32, 45, 62, 32,
    71, 82, 69, 69, 78, 32, 91, 108, 97, 98, 101, 108, 32, 61, 32, 34, 84, 73,
    67, 75, 34, 93, 59, 10, 9, 82, 69, 68, 32, 45, 62, 32, 82, 69, 68, 32, 91,
    108, 97, 98, 101, 108, 32, 61, 32, 34, 76, 79, 79, 80, 34, 93, 59, 10, 9,
    89, 69, 76, 76, 79, 87, 32, 45, 62, 32, 66, 79, 85, 78, 67, 69, 32, 91,
    108, 97, 98, 101, 108, 32, 61, 32, 34, 84, 73, 67, 75, 34, 93, 59, 10, 9,
    89, 69, 76, 76, 79, 87, 32, 45, 62, 32, 69, 88, 73, 84, 32, 91, 108, 97,
    98, 101, 108, 61, 34, 109, 97, 99, 104, 105, 110, 101, 32, 102, 97, 108,
    108, 98, 97, 99, 107, 34, 44, 32, 115, 116, 121, 108, 101, 61, 100, 97,
    115, 104, 101, 100, 93, 59, 10, 9, 89, 69, 76, 76, 79, 87, 32, 45, 62, 32,
    69, 88, 73, 84, 32, 91, 108, 97, 98, 101, 108, 61, 34, 115, 116, 97, 116,
    101, 32, 102, 97, 108, 108, 98, 97, 99, 107, 34, 44, 32, 115, 116, 121,
    108, 101, 61, 100, 97, 115, 104, 101, 100, 93, 59, 10, 9, 35, 32, 116,
    105, 116, 108, 101, 10, 9, 108, 97, 98, 101, 108, 108, 111, 99, 61, 34,
    116, 34, 59, 10, 9, 108, 97, 98, 101, 108, 61, 34, 83, 105, 109, 112, 108,
    101, 84, 114, 97, 110, 115, 105, 116, 105, 111, 110, 34, 59, 10, 125>>

\* whether the string t occurs in the string s
Contains(s, t) ==
    \E j \in 1..(Len(s) - Len(t) + 1) : SubSeq(s, j, j + Len(t) - 1) = t

\* whether the strings of ss are in increasing order
IsSorted(ss) == \A i \in 1..(Len(ss) - 1) : ~LexLess(ss[i + 1], ss[i])

\* C21: Dot is deterministic: whatever order the ranges over the states map and the
\* transitions maps take, the machine rendered with the same current state gives the
\* text of the last call, and its transition lines are in lexicographic order.
C21_DotDeterministic ==
    dot.called =>
       /\ IsSorted(dot.transitions)
       /\ \A stateOrder \in StateOrders, keyOrder \in KeyOrders :
             Dot(dot.machine, dot.currentState, stateOrder, keyOrder).text = dot.text

\* the machine of ExampleDot rendered at GREEN: the text is the one the test expects
C21_Witness ==
    /\ dot.called
    /\ dot.text = ExampleDotOutput

\* the orderedStates of the machine rendered last
Ordered == SliceElems(sm[dot.machine].orderedStates)

\* the render of the isomorphic machine whose AddState calls were made in the order
\* of the sequence ordered
Isomorphic(ordered) ==
    Render(ordered, sm[dot.machine].fallbackState, dot.currentState,
           CHOOSE o \in StateOrders : TRUE, CHOOSE o \in KeyOrders : TRUE)

\* other orders of the AddState calls that made the machine rendered last
OtherOrders ==
    {Reverse(Ordered), [i \in 1..Len(Ordered) |-> Ordered[(i % Len(Ordered)) + 1]]}

\* whether the sequences a and b hold the same strings, each as often
SameEntries(a, b) ==
    /\ Len(a) = Len(b)
    /\ \A i \in 1..Len(a) :
          Cardinality({j \in 1..Len(a) : a[j] = a[i]})
             = Cardinality({j \in 1..Len(b) : b[j] = a[i]})

\* whether the string s begins with the string t
StartsWith(s, t) == Len(t) <= Len(s) /\ SubSeq(s, 1, Len(t)) = t

\* C22, as stated: isomorphic machines built in different orders render identical,
\* lexicographically sorted node listings and edge listings.
C22_SortedListings ==
    dot.called =>
       /\ IsSorted(dot.nodeLines)
       /\ IsSorted(dot.transitions)
       /\ \A p \in OtherOrders :
             /\ Isomorphic(p).nodeLines = dot.nodeLines
             /\ Isomorphic(p).transitions = dot.transitions

\* C22, amended: isomorphic machines built in different orders render identical,
\* lexicographically sorted edge listings; their node listings hold the same
\* entries, each machine listing them in the order of its own AddState calls.
C22_SameEntries ==
    dot.called =>
       /\ IsSorted(dot.transitions)
       /\ Len(dot.nodeLines) = Len(Ordered)
       /\ \A i \in 1..Len(Ordered) :
             StartsWith(dot.nodeLines[i],
                        TxtTab \o NameText(stateObjs[Ordered[i]].name))
       /\ \A p \in OtherOrders :
             /\ Isomorphic(p).transitions = dot.transitions
             /\ SameEntries(Isomorphic(p).nodeLines, dot.nodeLines)
             /\ \A i \in 1..Len(p) :
                   StartsWith(Isomorphic(p).nodeLines[i],
                              TxtTab \o NameText(stateObjs[p[i]].name))

\* the machine built in the order of createFSM was rendered: its node listing is not
\* sorted and differs from that of the machine built in the reverse order
C22_Witness ==
    /\ dot.called
    /\ ~IsSorted(dot.nodeLines)
    /\ Isomorphic(Reverse(Ordered)).nodeLines # dot.nodeLines
    /\ SameEntries(Isomorphic(Reverse(Ordered)).nodeLines, dot.nodeLines)

\* the states of the states map of the definition
InMap == {states[n] : n \in Names} \ {Nil}

\* the keys of the keyed transitions of state x
KeyedOut(x) == {k \in Keys : stateObjs[x].transitions[k] # Nil}

\* whether x has a static fallback of its own or is covered by that of the machine
FallbackOut(x) ==
    stateObjs[x].fallbackTransition # Nil \/ sm[dot.machine].fallbackState # Nil

\* whether node i of the last render is the node of the current state
Active(i) == dot.nodes[i].name = stateObjs[dot.currentState].name

\* whether node i of the last render is written double-bordered
DoubleBordered(i) == Contains(dot.nodeLines[i], TxtDoubleCircle)

\* C23, as stated: a state is classified as an end state exactly when it has no
\* outgoing transition, keyed or fallback (its own or the machine's).
C23_EndCountsFallbacks ==
    dot.called =>
       \A i \in 1..Len(Ordered) :
          isEnd(Ordered[i]) <=> (KeyedOut(Ordered[i]) = {} /\ ~FallbackOut(Ordered[i]))

\* C23, amended: a state is classified as an end state exactly when it has no keyed
\* transition; fallbacks are not counted.  A state that is neither current nor a
\* start state is written double-bordered exactly when it has no keyed transition.
C23_EndKeyedOnly ==
    dot.called =>
       \A i \in 1..Len(Ordered) :
          /\ isEnd(Ordered[i]) <=> KeyedOut(Ordered[i]) = {}
          /\ (~Active(i) /\ ~isStart(Ordered[i])) =>
                (DoubleBordered(i) <=> KeyedOut(Ordered[i]) = {})

\* EXIT has no keyed transition but a fallback to GREEN, which makes it no start
\* state either way; rendered at another state it is written double-bordered
C23_Witness ==
    /\ dot.called
    /\ \E i \in 1..Len(Ordered) :
          /\ Ordered[i] = "exit"
          /\ KeyedOut("exit") = {}
          /\ stateObjs["exit"].fallbackTransition = "green"
          /\ ~Active(i)
          /\ DoubleBordered(i)

\* whether some state of the map has a keyed transition to a state named as x
KeyedInto(x, from) ==
    \E s \in from, k \in Keys :
       /\ stateObjs[s].transitions[k] # Nil
       /\ stateObjs[stateObjs[s].transitions[k]].name = stateObjs[x].name

\* whether a static fallback, of a state of the map or of the machine, leads to a
\* state named as x
FallbackInto(x) ==
    \/ \E s \in InMap :
          /\ stateObjs[s].fallbackTransition # Nil
          /\ stateObjs[stateObjs[s].fallbackTransition].name = stateObjs[x].name
    \/ /\ sm[dot.machine].fallbackState # Nil
       /\ InMap # {}
       /\ stateObjs[sm[dot.machine].fallbackState].name = stateObjs[x].name

\* the states of the map named otherwise than x
Others(x) == {s \in InMap : stateObjs[s].name # stateObjs[x].name}

\* C24, as stated: a state is classified as a start state exactly when no transition
\* of any state, itself included, keyed or fallback, targets it.
C24_StartCountsAll ==
    dot.called =>
       \A i \in 1..Len(Ordered) :
          isStart(Ordered[i]) <=>
             (~KeyedInto(Ordered[i], InMap) /\ ~FallbackInto(Ordered[i]))

\* C24, amended: a state is classified as a start state exactly when no keyed
\* transition of another state targets it; its own transitions to itself and
\* fallback transitions are not counted.  A state that is neither current nor an end
\* state is written double-bordered exactly when no other state has a keyed
\* transition to it.
C24_StartOthersKeyed ==
    dot.called =>
       \A i \in 1..Len(Ordered) :
          /\ isStart(Ordered[i]) <=> ~KeyedInto(Ordered[i], Others(Ordered[i]))
          /\ (~Active(i) /\ ~isEnd(Ordered[i])) =>
                (DoubleBordered(i) <=> ~KeyedInto(Ordered[i], Others(Ordered[i])))

\* PURPLE was added with a LOOP transition to itself, its only incoming transition;
\* rendered at another state it is written double-bordered
C24_Witness ==
    /\ dot.called
    /\ \E i \in 1..Len(Ordered) :
          /\ Ordered[i] = "added"
          /\ stateObjs["added"].name = "PURPLE"
          /\ stateObjs["added"].transitions[LOOP] = "added"
          /\ ~Active(i)
          /\ DoubleBordered(i)

\* whether the string s ends with the string t
EndsWith(s, t) == Len(t) <= Len(s) /\ SubSeq(s, Len(s) - Len(t) + 1, Len(s)) = t

\* how many transition lines of the last render satisfy the test
EdgeCount(test(_)) == Cardinality({i \in 1..Len(dot.transitions) : test(dot.transitions[i])})

IsKeyedEdge(line) == Contains(line, TxtLabelOpen)
IsStateFallbackEdge(line) == EndsWith(line, TxtStateFallback)
IsMachineFallbackEdge(line) == EndsWith(line, TxtMachineFallback)

\* the keyed transitions of the states of the map: pairs of state and key
KeyedPairs == {p \in InMap \X Keys : stateObjs[p[1]].transitions[p[2]] # Nil}

\* the states of the map that have a static fallback
WithStateFallback == {s \in InMap : stateObjs[s].fallbackTransition # Nil}

\* the edge lines the claim gives the machine rendered last
ExpectedEdges ==
    {KeyedLine(p[1], stateObjs[p[1]].transitions[p[2]], p[2]) : p \in KeyedPairs}
    \cup {StateFallbackLine(s, stateObjs[s].fallbackTransition) : s \in WithStateFallback}
    \cup (IF sm[dot.machine].fallbackState = Nil THEN {}
          ELSE {MachineFallbackLine(s, sm[dot.machine].fallbackState) : s \in InMap})

\* C25: Dot emits one edge line per keyed transition, labelled with its key, one
\* 'state fallback' line per state with a static fallback, and, when the machine has
\* a static fallback state, one 'machine fallback' line from every registered state;
\* there is no other line, so a fallback handler produces none.
C25_Edges ==
    dot.called =>
       /\ {dot.transitions[i] : i \in 1..Len(dot.transitions)} = ExpectedEdges
       /\ EdgeCount(IsKeyedEdge) = Cardinality(KeyedPairs)
       /\ EdgeCount(IsStateFallbackEdge) = Cardinality(WithStateFallback)
       /\ EdgeCount(IsMachineFallbackEdge) =
             IF sm[dot.machine].fallbackState = Nil THEN 0 ELSE Cardinality(InMap)
       /\ Len(dot.transitions) =
             EdgeCount(IsKeyedEdge) + EdgeCount(IsStateFallbackEdge)
                + EdgeCount(IsMachineFallbackEdge)

\* rendered with the machine fallback EXIT, a state fallback of EXIT to GREEN and a
\* fallback handler on YELLOW: EXIT has both dashed edges, YELLOW no state fallback edge
C25_Witness ==
    /\ dot.called
    /\ sm[dot.machine].fallbackState = "exit"
    /\ stateObjs["yellow"].fallbackHandler.set
    /\ \E i, j \in 1..Len(dot.transitions) :
          /\ dot.transitions[i] = MachineFallbackLine("exit", "exit")
          /\ dot.transitions[j] = StateFallbackLine("exit", "green")
    /\ ~\E i \in 1..Len(dot.transitions) :
          /\ StartsWith(dot.transitions[i], TxtTab \o NameText("YELLOW"))
          /\ IsStateFallbackEdge(dot.transitions[i])

\* whether node i of the last render is written highlighted
Highlighted(i) == Contains(dot.nodeLines[i], TxtFillGold)

\* C26: in the node listing the nodes named as the current state, and only they, are
\* highlighted, and every start or end state is written double-bordered, the current
\* state included.
C26_Marks ==
    dot.called =>
       \A i \in 1..Len(Ordered) :
          /\ Highlighted(i) <=> Active(i)
          /\ (isEnd(Ordered[i]) \/ isStart(Ordered[i])) => DoubleBordered(i)

\* C27: names are unique and re-adding a name overwrites: Dot has exactly one node
\* entry per name of the states map, and the map gives for the name of the state
\* added last that state.
C27_OneNodePerName ==
    /\ "added" \in Allocated => states[stateObjs["added"].name] = "added"
    /\ dot.called =>
          \A n \in Names :
             states[n] # Nil =>
                Cardinality({i \in 1..Len(dot.nodes) : dot.nodes[i].name = n}) = 1

\* the machine-scoped fallback the struct m should have: what the setter called last
\* on m left, or, with no setter called on m, what the definition had when m was
\* copied from it
ExpectedFallbackState(m) ==
    IF lastSet.machine[m] # NoSet /\ lastSet.machine[m].kind = "static"
    THEN lastSet.machine[m].arg ELSE Nil

ExpectedFallbackHandler(m) ==
    IF lastSet.machine[m] # NoSet /\ lastSet.machine[m].kind = "dynamic"
    THEN lastSet.machine[m].arg ELSE NoFallbackHandler

\* where the machine-scoped fallback of m should lead
ExpectedFallbackTarget(m) ==
    IF ExpectedFallbackState(m) # Nil THEN ExpectedFallbackState(m)
    ELSE ExpectedFallbackHandler(m).ret

\* C31: the machine-scoped fallback is local to the struct it was set on: the
\* definition and every instance have the fallback state and handler set last on
\* themselves (an instance without one has those of the definition at the time it
\* was made), whatever was set on the others; and an instance fired at GREEN with a
\* key GREEN has no transition for goes where its own fallback leads, or fails when
\* it has none.
C31_FallbackLocal ==
    /\ \A m \in Machines :
          Exists(m) =>
             /\ sm[m].fallbackState = ExpectedFallbackState(m)
             /\ sm[m].fallbackHandler = ExpectedFallbackHandler(m)
    /\ (fr.pc # "idle" /\ call.before = "green" /\ call.key = UNKNOWN) =>
          /\ Len(eps) >= 1 => eps[1].to = ExpectedFallbackTarget(call.inst)
          /\ fr.pc = "error" => ExpectedFallbackTarget(call.inst) = Nil

\* instance 2 was given the fallback state RED after instance 1 was made, the
\* definition a handler after that; instance 1, with no fallback of its own, was fired
\* at GREEN with UNKNOWN and failed
C31_Witness ==
    /\ inst[1].live
    /\ inst[2].live
    /\ sm[2].fallbackState = "red"
    /\ sm[0].fallbackHandler.set
    /\ sm[1].fallbackState = Nil
    /\ ~sm[1].fallbackHandler.set
    /\ fr.pc = "idle"
    /\ call.inst = 1
    /\ call.before = "green"
    /\ ret = ErrTransitionNotFound("GREEN", UNKNOWN)

\* C32: a listener registered through an instance stays registered: when an episode
\* of an instance has notified its listeners, every listener that was added through
\* that instance has been notified of it.
C32_ListenerStays ==
    fr.pc = "return" =>
        \A l \in 1..Len(lisVia) :
            lisVia[l] = fr.inst
                => \E j \in DOMAIN log :
                      log[j].kind = "listener" /\ log[j].lis = l /\ log[j].ep = Len(eps)

====
